---- MODULE Spec2Model ----
(***************************************************************************)
(* Window/session core of the profanity terminal client: the window        *)
(* registry, the inbound event handlers (server_events.c, ui/core.c) and   *)
(* the user commands (commands.c) that create, focus, close and re-key     *)
(* windows and that move a chat window between encryption modes.           *)
(*                                                                         *)
(* Every C handler is an operator from a state record to a state record;   *)
(* an action applies one handler to the current state and commits the      *)
(* result.  A NULL dereference is recorded in the field "crashed".         *)
(***************************************************************************)
EXTENDS Integers, Sequences, FiniteSets, TLC

VARIABLES
    windows,      \* the registry: set of window records, each with its slot "num"
    current,      \* slot number of the current window
    conn_status,  \* jabber_get_connection_status()
    otr_secure,   \* counterparts for which the OTR engine holds a secure session
    muc,          \* per room: active / roster_complete / requires_config / nick_change_pending
    received,     \* per contact: inbound messages shown since the chat window was opened or last focused
    prefs,        \* the boolean preferences that are on
    gone,         \* the "gone" period of the chat-states preferences, in minutes
    invites,      \* per room: entries of the pending-invite list that name it
    chat_sessions, \* per contact: the resource the conversation is bound to ("" when none)
    form_ac,      \* rooms whose configuration-form fields are registered for autocompletion
    iq_pending,   \* per room: configuration-form requests and form submissions awaiting their result
    crashed,      \* a handler dereferenced a NULL window
    bar,          \* the slots the last handler left the status bar and the title bar showing (0: untouched)
    op,           \* the handler that ran last, with its arguments
    out           \* protocol actions and user-visible lines the last handler produced

vars == <<windows, current, conn_status, otr_secure, muc, received, prefs, gone, invites,
          chat_sessions, form_ac, iq_pending, crashed, bar, op, out>>

----------------------------------------------------------------------------
(* Bounds of the model *)

MaxWin == 4        \* highest slot number the registry hands out
MaxUnread == 3     \* inbound messages to an unfocused window are cut off here
MaxPending == 2    \* requests to one room that may await their result at a time
MaxBroadcasts == 2 \* broadcasts a room sends before the join completes

Contacts == {"a@x", "b@x"}
One == {"a@x"}
Rooms == {"r@conf"}
Nicks == {"n"}
\* the rooms that send invites: the rooms of the model and one that is never joined
InviteRooms == Rooms \cup {"q@conf"}
Occupants == {"o"}
PrivJids == {r \o "/" \o n : r \in Rooms, n \in Nicks}

Slots == 1..MaxWin

----------------------------------------------------------------------------
(* Window variant model *)

NewWin(n, t, k) ==
    [num |-> n, type |-> t, key |-> k, unread |-> 0,
     enc_mode |-> "none", otr_is_trusted |-> FALSE, modified |-> FALSE,
     resource_override |-> "", history_shown |-> FALSE]

Console == NewWin(1, "console", "")

NoOp == [name |-> "init", key |-> "", num |-> 0, flag |-> "", prefs |-> {}]

\* an operation and the preferences that were on when it ran
MkOpP(n, k, i, f, p) == [name |-> n, key |-> k, num |-> i, flag |-> f, prefs |-> p]

MkOp(n, k, i, f) == MkOpP(n, k, i, f, {})

\* role and affiliation of a room before the first presence names them
NoRole == "none"
NoAffiliation == "none"

\* subject "" stands for NULL; roster maps the nicks present to their
\* role, affiliation and presence
InitRoom ==
    [active |-> FALSE, roster_complete |-> FALSE, autojoin |-> FALSE,
     requires_config |-> FALSE, nick_change_pending |-> FALSE,
     subject |-> "", pending_broadcasts |-> <<>>,
     role |-> NoRole, affiliation |-> NoAffiliation, roster |-> [n \in {} |-> n]]

----------------------------------------------------------------------------
(* Window registry (window_list) *)

wins_get_nums(W) == {w.num : w \in W}

wins_get_by_num(W, n) ==
    IF n \in wins_get_nums(W) THEN CHOOSE w \in W : w.num = n ELSE Console

wins_exists(W, n) == n \in wins_get_nums(W)

\* lookup by natural key; 0 stands for NULL
wins_lookup(W, t, k) ==
    LET M == {w.num : w \in {x \in W : x.type = t /\ x.key = k}}
    IN  IF M = {} THEN 0 ELSE CHOOSE n \in M : \A m \in M : n <= m

wins_get_chat(W, barejid) == wins_lookup(W, "chat", barejid)
wins_get_private(W, fulljid) == wins_lookup(W, "private", fulljid)
wins_get_muc(W, roomjid) == wins_lookup(W, "muc", roomjid)
wins_get_muc_conf(W, roomjid) == wins_lookup(W, "muc_config", roomjid)

\* lowest unused slot above the console slot; 0 when every slot is used
get_next_available_win_num(W) ==
    LET F == {n \in 2..MaxWin : n \notin wins_get_nums(W)}
    IN  IF F = {} THEN 0 ELSE CHOOSE n \in F : \A m \in F : n <= m

wins_is_current(S, n) == S.current = n

win_unread(w) == w.unread

----------------------------------------------------------------------------
(* Handler state: the part of the program state a handler reads and writes *)

\* neither bar has been told anything
NoBar == [status_bar |-> 0, title_bar |-> 0]

St ==
    [windows |-> windows, current |-> current, conn_status |-> conn_status,
     otr_secure |-> otr_secure, muc |-> muc, prefs |-> prefs, gone |-> gone,
     invites |-> invites,
     chat_sessions |-> chat_sessions,
     form_ac |-> form_ac, crashed |-> FALSE, bar |-> NoBar, out |-> <<>>]

Emit(S, kind, what, wtype, key) ==
    [S EXCEPT !.out = Append(@, <<kind, what, wtype, key>>)]

\* a line printed in the window in slot n
win_print(S, n, what) ==
    LET w == wins_get_by_num(S.windows, n)
    IN  Emit(S, "print", what, w.type, w.key)

cons_show(S, what) == Emit(S, "print", what, "console", "")

ui_current_print_line(S, what) == win_print(S, S.current, what)

Send(S, what, to) == Emit(S, "send", what, "", to)

\* dereference of a NULL window pointer
Crash(S) == [S EXCEPT !.crashed = TRUE]

\* the slot the status bar marks as current
status_bar_current(S, i) == [S EXCEPT !.bar.status_bar = i]

\* the slot whose title the title bar shows: the console's, or the current window's
title_bar_console(S) == [S EXCEPT !.bar.title_bar = 1]
title_bar_switch(S) == [S EXCEPT !.bar.title_bar = S.current]

\* the console is shown as current: what the registry does when it re-homes the focus
ShowConsole(S) == status_bar_current(title_bar_console(S), 1)

----------------------------------------------------------------------------
(* Window registry: mutators *)

\* insert a window of kind t and key k in slot n (n from get_next_available_win_num)
wins_new(S, n, t, k) ==
    [S EXCEPT !.windows = @ \cup {NewWin(n, t, k)}]

\* make slot i current; a chat, private or room window that gets the focus is read
wins_set_current_by_num(S, i) ==
    IF wins_exists(S.windows, i)
    THEN [S EXCEPT !.current = i,
                   !.windows = {IF w.num = i THEN [w EXCEPT !.unread = 0] ELSE w : w \in @}]
    ELSE S

\* remove the window in slot i; the console takes over when it was current
wins_close_by_num(S, i) ==
    [S EXCEPT !.windows = {w \in @ : w.num # i},
              !.current = IF @ = i THEN 1 ELSE @]

wins_close_current(S) == wins_close_by_num(S, S.current)

\* number of open windows in slots below n: the position of slot n after tidy
Rank(W, n) == Cardinality({m \in wins_get_nums(W) : m < n})

wins_tidy_needed(W) == \E w \in W : w.num # Rank(W, w.num) + 1

\* slip: only the lowest gap is closed
wins_tidy_one_gap(S) ==
    LET f == get_next_available_win_num(S.windows)
    IN  IF wins_tidy_needed(S.windows)
        THEN [S EXCEPT !.windows = {IF w.num > f THEN [w EXCEPT !.num = @ - 1] ELSE w : w \in @},
                       !.current = 1]
        ELSE S

\* renumber the open windows 1..k in their previous order
wins_tidy(S) ==
    IF wins_tidy_needed(S.windows)
    THEN ShowConsole([S EXCEPT !.windows = {[w EXCEPT !.num = Rank(S.windows, w.num) + 1] : w \in @},
                               !.current = 1])
    ELSE S

\* exchange the windows of two occupied, non-console slots
wins_swap_ok(W, a, b) ==
    /\ a # 1 /\ b # 1
    /\ wins_exists(W, a) /\ wins_exists(W, b)

wins_swap(S, a, b) ==
    IF wins_swap_ok(S.windows, a, b)
    THEN LET S1 == [S EXCEPT !.windows = {IF w.num = a THEN [w EXCEPT !.num = b]
                                          ELSE IF w.num = b THEN [w EXCEPT !.num = a]
                                          ELSE w : w \in @},
                             !.current = IF @ \in {a, b} THEN 1 ELSE @]
         IN  IF S.current \in {a, b} THEN ShowConsole(S1) ELSE S1
    ELSE S

\* slip: every chat and private window is eligible
wins_get_prune_wins_unfiltered(S) ==
    {w.num : w \in {x \in S.windows : x.type \in {"chat", "private"}}}

\* windows eligible for automatic closure: read chats, never console or current
wins_get_prune_wins(S) ==
    {w.num : w \in {x \in S.windows :
        x.type \in {"chat", "private"} /\ x.unread = 0 /\ x.num # S.current}}

SetWin(S, n, w) == [S EXCEPT !.windows = {IF x.num = n THEN w ELSE x : x \in @}]

----------------------------------------------------------------------------
(* Room table (muc) and OTR engine: external collaborators *)

muc_active(S, room) == room \in DOMAIN S.muc /\ S.muc[room].active
muc_roster_complete(S, room) == muc_active(S, room) /\ S.muc[room].roster_complete
muc_requires_config(S, room) == muc_active(S, room) /\ S.muc[room].requires_config
muc_nick_change_pending(S, room) == muc_active(S, room) /\ S.muc[room].nick_change_pending

muc_autojoin(S, room) == muc_active(S, room) /\ S.muc[room].autojoin

muc_join(S, room, autojoin) ==
    [S EXCEPT !.muc[room] = [InitRoom EXCEPT !.active = TRUE, !.autojoin = autojoin]]
muc_leave(S, room) == [S EXCEPT !.muc[room] = InitRoom]
\* slip: the roster is never marked complete
muc_roster_set_complete_never(S, room) == S

muc_roster_set_complete(S, room) ==
    IF S.muc[room].active THEN [S EXCEPT !.muc[room].roster_complete = TRUE] ELSE S
muc_set_requires_config(S, room, val) ==
    IF S.muc[room].active THEN [S EXCEPT !.muc[room].requires_config = val] ELSE S
muc_nick_change_start(S, room) ==
    IF S.muc[room].active THEN [S EXCEPT !.muc[room].nick_change_pending = TRUE] ELSE S
muc_nick_change_complete(S, room) ==
    IF S.muc[room].active THEN [S EXCEPT !.muc[room].nick_change_pending = FALSE] ELSE S

muc_invites_contain(S, room) == S.invites[room] > 0
muc_invites_add(S, room) == [S EXCEPT !.invites[room] = @ + 1]
muc_invites_remove(S, room) == [S EXCEPT !.invites[room] = IF @ > 0 THEN @ - 1 ELSE 0]
muc_invites_clear(S) == [S EXCEPT !.invites = [r \in InviteRooms |-> 0]]

muc_subject(S, room) == S.muc[room].subject
muc_set_subject(S, room, subject) ==
    IF S.muc[room].active THEN [S EXCEPT !.muc[room].subject = subject] ELSE S
muc_pending_broadcasts(S, room) == S.muc[room].pending_broadcasts
muc_pending_broadcasts_add(S, room, message) ==
    IF S.muc[room].active
    THEN [S EXCEPT !.muc[room].pending_broadcasts = Append(@, message)] ELSE S
muc_roster_contains_nick(S, room, nick) == nick \in DOMAIN S.muc[room].roster
muc_roster_item(S, room, nick) == S.muc[room].roster[nick]
muc_occupant_role_str(occupant) == occupant.role
muc_occupant_affiliation_str(occupant) == occupant.affiliation
\* what muc_roster_add returns: the occupant is new or its presence differs
muc_roster_updated(S, room, nick, show) ==
    \/ ~muc_roster_contains_nick(S, room, nick)
    \/ muc_roster_item(S, room, nick).show # show
muc_roster_add(S, room, nick, role, affiliation, show) ==
    LET roster == S.muc[room].roster
        occupant == [role |-> role, affiliation |-> affiliation, show |-> show]
    IN  [S EXCEPT !.muc[room].roster =
            [n \in DOMAIN roster \cup {nick} |-> IF n = nick THEN occupant ELSE roster[n]]]
muc_roster_remove(S, room, nick) ==
    LET roster == S.muc[room].roster
    IN  [S EXCEPT !.muc[room].roster = [n \in DOMAIN roster \ {nick} |-> roster[n]]]
muc_role_str(S, room) == S.muc[room].role
muc_affiliation_str(S, room) == S.muc[room].affiliation
muc_set_role(S, room, role) ==
    IF S.muc[room].active THEN [S EXCEPT !.muc[room].role = role] ELSE S
muc_set_affiliation(S, room, affiliation) ==
    IF S.muc[room].active THEN [S EXCEPT !.muc[room].affiliation = affiliation] ELSE S

otr_is_secure(S, barejid) == barejid \in S.otr_secure

otr_end_session(S, barejid) ==
    IF barejid \in S.otr_secure
    THEN Send([S EXCEPT !.otr_secure = @ \ {barejid}], "otr_disconnect", barejid)
    ELSE S

\* chat sessions: the resource a conversation is bound to; "" stands for NULL
chat_session_get(S, barejid) ==
    IF barejid \in DOMAIN S.chat_sessions THEN S.chat_sessions[barejid] ELSE ""

chat_session_remove(S, barejid) ==
    IF barejid \in DOMAIN S.chat_sessions THEN [S EXCEPT !.chat_sessions[barejid] = ""] ELSE S

chat_sessions_clear(S) == [S EXCEPT !.chat_sessions = [c \in DOMAIN @ |-> ""]]

chat_session_resource_override(S, barejid, resource) ==
    IF barejid \in DOMAIN S.chat_sessions
    THEN [S EXCEPT !.chat_sessions[barejid] = resource] ELSE S

\* an active chat state from a full address binds the conversation to its resource
chat_session_recipient_active(S, barejid, resource) ==
    IF barejid \in DOMAIN S.chat_sessions
    THEN [S EXCEPT !.chat_sessions[barejid] = resource] ELSE S

\* message_send_chat and its OTR and PGP variants: the stanza goes to the full
\* address of the conversation's session, to the bare address when there is none;
\* the resource, "" for the bare address, is recorded with the send
message_send_chat(S, what, barejid) ==
    Emit(S, "send", what, chat_session_get(S, barejid), barejid)

----------------------------------------------------------------------------
(* ui/core.c: focus, close, encryption indicators *)

\* the field tags of the configuration form of a room, as one entry
cmd_autocomplete_add_form_fields(S, roomjid) == [S EXCEPT !.form_ac = @ \cup {roomjid}]
cmd_autocomplete_remove_form_fields(S, roomjid) == [S EXCEPT !.form_ac = @ \ {roomjid}]

\* slip: the fields of the old current window are removed after those of the
\* new one are added
SwitchFormFieldsRemovesLast(S, n) ==
    LET old_current == wins_get_by_num(S.windows, S.current)
        window == wins_get_by_num(S.windows, n)
        S1 == IF window.type = "muc_config"
              THEN cmd_autocomplete_add_form_fields(S, window.key) ELSE S
    IN  IF old_current.type = "muc_config"
        THEN cmd_autocomplete_remove_form_fields(S1, old_current.key) ELSE S1

\* the fields of the window left behind go, those of the window in slot n come
SwitchFormFields(S, n) ==
    LET old_current == wins_get_by_num(S.windows, S.current)
        window == wins_get_by_num(S.windows, n)
        S1 == IF old_current.type = "muc_config"
              THEN cmd_autocomplete_remove_form_fields(S, old_current.key) ELSE S
    IN  IF window.type = "muc_config"
        THEN cmd_autocomplete_add_form_fields(S1, window.key) ELSE S1

\* slip: the current slot is set without going through the registry
ui_switch_win_keeps_unread(S, n) ==
    IF n = 0 THEN Crash(S) ELSE [SwitchFormFields(S, n) EXCEPT !.current = n]

\* ui_ev_focus_win -> ui_switch_win; n = 0 is a NULL window (assert fails)
ui_switch_win(S, n) ==
    LET S1 == wins_set_current_by_num(SwitchFormFields(S, n), n)
    IN  IF n = 0 THEN Crash(S)
        ELSE status_bar_current(IF n = 1 THEN title_bar_console(S1) ELSE title_bar_switch(S1), n)

\* slip: the form's modified flag is not consulted
ui_win_has_unsaved_form_never(S, n) == FALSE

ui_win_has_unsaved_form(S, n) ==
    LET w == wins_get_by_num(S.windows, n)
    IN  IF w.type = "muc_config" THEN w.modified ELSE FALSE

ui_win_unread(S, n) ==
    IF wins_exists(S.windows, n) THEN win_unread(wins_get_by_num(S.windows, n)) ELSE 0

\* slip: the window is taken out of the registry behind its back
ui_close_win_keeps_current(S, index) ==
    [S EXCEPT !.windows = {w \in @ : w.num # index}]

ui_close_win(S, index) ==
    LET window == wins_get_by_num(S.windows, index)
        S1 == IF wins_exists(S.windows, index) /\ window.type = "muc_config"
              THEN wins_close_by_num(cmd_autocomplete_remove_form_fields(S, window.key), index)
              ELSE wins_close_by_num(S, index)
    IN  status_bar_current(title_bar_console(S1), 1)

ui_leave_room(S, roomjid) ==
    LET n == wins_get_muc(S.windows, roomjid)
    IN  IF n # 0 THEN ui_close_win(S, n) ELSE S

ui_close_connected_win(S, index) ==
    IF ~wins_exists(S.windows, index) THEN S
    ELSE LET w == wins_get_by_num(S.windows, index)
         IN  IF w.type = "muc"
             THEN ui_leave_room(muc_leave(Send(S, "presence_leave_chat_room", w.key), w.key), w.key)
             ELSE IF w.type = "chat"
             THEN chat_session_remove(IF w.enc_mode = "otr" THEN otr_end_session(S, w.key) ELSE S,
                                      w.key)
             ELSE S

MinOf(N) == CHOOSE n \in N : \A m \in N : n <= m

\* the loop of ui_close_all_wins (read = FALSE) and ui_close_read_wins (read = TRUE)
\* over the slot numbers taken before the loop; r = [s: state, count: closed]
RECURSIVE ui_close_wins_loop(_, _, _, _)
ui_close_wins_loop(r, nums, read, connected) ==
    IF nums = {} THEN r
    ELSE LET num == MinOf(nums)
             S == r.s
             sel == /\ num # 1
                    /\ (read => ui_win_unread(S, num) = 0)
                    /\ ~ui_win_has_unsaved_form(S, num)
             S1 == IF connected THEN ui_close_connected_win(S, num) ELSE S
             S2 == ui_close_win(S1, num)
         IN  ui_close_wins_loop(IF sel THEN [s |-> S2, count |-> r.count + 1] ELSE r,
                                nums \ {num}, read, connected)

ui_close_all_wins(S, connected) ==
    ui_close_wins_loop([s |-> S, count |-> 0], wins_get_nums(S.windows), FALSE, connected)

ui_close_read_wins(S, connected) ==
    ui_close_wins_loop([s |-> S, count |-> 0], wins_get_nums(S.windows), TRUE, connected)

RECURSIVE ui_prune_loop(_, _)
ui_prune_loop(S, keys) ==
    IF keys = {} THEN S
    ELSE LET k == CHOOSE x \in keys : TRUE
             n == wins_lookup(S.windows, k[1], k[2])
             S1 == IF k[1] = "chat" /\ S.conn_status = "connected"
                   THEN chat_session_remove(S, k[2]) ELSE S
         IN  ui_prune_loop(IF n # 0 THEN ui_close_win(S1, n) ELSE S, keys \ {k})

\* the pruned windows are held by pointer: they are found again by kind and key
ui_prune_wins(S) ==
    LET nums == wins_get_prune_wins(S)
        keys == {<<wins_get_by_num(S.windows, n).type, wins_get_by_num(S.windows, n).key>> : n \in nums}
        S1 == wins_tidy(ui_prune_loop(S, keys))
    IN  cons_show(S1, IF nums # {} THEN "Windows pruned." ELSE "No prune needed.")

ui_gone_secure(S, barejid, trusted) ==
    LET c == wins_get_chat(S.windows, barejid)
        n == IF c # 0 THEN c ELSE get_next_available_win_num(S.windows)
        S1 == IF c # 0 THEN S ELSE wins_new(S, n, "chat", barejid)
        w == wins_get_by_num(S1.windows, n)
    IN  IF n = 0 THEN Crash(S)
        ELSE win_print(SetWin(S1, n, [w EXCEPT !.enc_mode = "otr", !.otr_is_trusted = trusted]),
                       n, "OTR session started")

\* slip: the trust flag survives the end of the session
ui_gone_insecure_keeps_trust(S, barejid) ==
    LET n == wins_get_chat(S.windows, barejid)
        w == wins_get_by_num(S.windows, n)
    IN  IF n = 0 THEN S
        ELSE win_print(SetWin(S, n, [w EXCEPT !.enc_mode = "none"]), n, "OTR session ended.")

ui_gone_insecure(S, barejid) ==
    LET n == wins_get_chat(S.windows, barejid)
        w == wins_get_by_num(S.windows, n)
    IN  IF n = 0 THEN S
        ELSE win_print(SetWin(S, n, [w EXCEPT !.enc_mode = "none", !.otr_is_trusted = FALSE]),
                       n, "OTR session ended.")

ui_trust(S, barejid) ==
    LET n == wins_get_chat(S.windows, barejid)
        w == wins_get_by_num(S.windows, n)
    IN  IF n = 0 THEN S
        ELSE win_print(SetWin(S, n, [w EXCEPT !.enc_mode = "otr", !.otr_is_trusted = TRUE]),
                       n, "OTR session trusted.")

ui_untrust(S, barejid) ==
    LET n == wins_get_chat(S.windows, barejid)
        w == wins_get_by_num(S.windows, n)
    IN  IF n = 0 THEN S
        ELSE win_print(SetWin(S, n, [w EXCEPT !.enc_mode = "otr", !.otr_is_trusted = FALSE]),
                       n, "OTR session untrusted.")

----------------------------------------------------------------------------
(* ui/core.c: inbound messages *)

IncUnread(S, n) ==
    LET w == wins_get_by_num(S.windows, n)
    IN  SetWin(S, n, [w EXCEPT !.unread = @ + 1])

prefs_get_boolean(S, pref) == pref \in S.prefs
prefs_set_boolean(S, pref, value) ==
    [S EXCEPT !.prefs = IF value THEN @ \cup {pref} ELSE @ \ {pref}]

\* slip: the logged lines are rendered again whenever they are asked for
_win_show_history_again(S, n) ==
    LET w == wins_get_by_num(S.windows, n)
    IN  SetWin(win_print(S, n, "chat_history"), n, [w EXCEPT !.history_shown = TRUE])

\* the logged lines of the conversation, rendered once per window
_win_show_history(S, n) ==
    LET w == wins_get_by_num(S.windows, n)
    IN  IF w.history_shown THEN S
        ELSE SetWin(win_print(S, n, "chat_history"), n, [w EXCEPT !.history_shown = TRUE])

\* the history, if PREF_CHLOG and PREF_HISTORY are both on
ShowHistoryIfLogged(S, n) ==
    IF prefs_get_boolean(S, "chlog") /\ prefs_get_boolean(S, "history")
    THEN _win_show_history(S, n) ELSE S

\* slip: the counter is bumped before the focus test
ui_incoming_msg_counts_focused(S, n) ==
    win_print(IncUnread(S, n), n, "incoming_message")

\* n is the slot of the chat window the caller resolved or created
ui_incoming_msg(S, n) ==
    IF wins_is_current(S, n)
    THEN win_print(S, n, "incoming_message")
    ELSE win_print(ShowHistoryIfLogged(IncUnread(cons_show(S, "incoming_message_summary"), n), n),
                   n, "incoming_message")

ui_incoming_private_msg(S, fulljid) ==
    LET p == wins_get_private(S.windows, fulljid)
        n == IF p # 0 THEN p ELSE get_next_available_win_num(S.windows)
        S1 == IF p # 0 THEN S ELSE wins_new(S, n, "private", fulljid)
    IN  IF n = 0 THEN Crash(S)
        ELSE IF wins_is_current(S1, n)
        THEN win_print(S1, n, "incoming_message")
        ELSE win_print(cons_show(IncUnread(S1, n), "incoming_message_summary"),
                       n, "incoming_message")

ui_room_message(S, roomjid) ==
    LET n == wins_get_muc(S.windows, roomjid)
        S1 == win_print(S, n, "room_message")
    IN  IF n = 0 THEN S
        ELSE IF wins_is_current(S1, n) THEN S1
        ELSE IncUnread(cons_show(S1, "incoming_message_summary"), n)

ui_new_chat_win(S, n, barejid) ==
    ShowHistoryIfLogged(wins_new(S, n, "chat", barejid), n)

ui_print_system_msg_from_recipient(S, barejid, message) ==
    LET c == wins_get_chat(S.windows, barejid)
        f == get_next_available_win_num(S.windows)
    IN  IF c # 0 THEN win_print(S, c, message)
        ELSE IF f # 0 THEN win_print(wins_new(S, f, "chat", barejid), f, message)
        ELSE win_print(S, 1, message)

ui_outgoing_chat_msg_carbon(S, barejid) ==
    LET c == wins_get_chat(S.windows, barejid)
        n == IF c # 0 THEN c ELSE get_next_available_win_num(S.windows)
        S1 == IF c # 0 THEN S ELSE ui_new_chat_win(S, n, barejid)
    IN  IF n = 0 THEN Crash(S) ELSE win_print(S1, n, "outgoing_message")

----------------------------------------------------------------------------
(* server_events.c: inbound chat events *)

\* otr_on_message_recv: what the OTR engine makes of a message without PGP payload.
\*   "plain"     no OTR content, the body is returned
\*   "data"      an OTR data message of a secure session, the clear text is returned
\*   "handshake" the key exchange completes: secure session, ui_gone_secure, nothing returned
\*   "finished"  the counterpart ended the session: ui_gone_insecure, nothing returned
OtrOutcomes(S, barejid) ==
    {"plain", "handshake"} \cup
        (IF otr_is_secure(S, barejid) THEN {"data", "finished"} ELSE {})

otr_on_message_recv(S, n, barejid, outcome, trusted) ==
    CASE outcome = "handshake" ->
            ui_gone_secure([S EXCEPT !.otr_secure = @ \cup {barejid}], barejid, trusted)
      [] outcome = "finished" ->
            ui_gone_insecure([S EXCEPT !.otr_secure = @ \ {barejid}], barejid)
      [] OTHER -> ui_incoming_msg(S, n)

SetEnc(S, n, mode) ==
    LET w == wins_get_by_num(S.windows, n)
    IN  SetWin(S, n, [w EXCEPT !.enc_mode = mode])

\* slip: a PGP payload is handled the same way in every mode
sv_ev_incoming_message_pgp_in_otr(S, barejid, enc, decrypted, outcome, trusted) ==
    LET c == wins_get_chat(S.windows, barejid)
        n == IF c # 0 THEN c ELSE get_next_available_win_num(S.windows)
        S1 == IF c # 0 THEN S ELSE wins_new(S, n, "chat", barejid)
        enc_mode == wins_get_by_num(S1.windows, n).enc_mode
    IN  IF n = 0 THEN Crash(S)
        ELSE IF enc
        THEN SetEnc(ui_incoming_msg(S1, n), n, IF decrypted THEN "pgp" ELSE "none")
        ELSE IF enc_mode = "pgp"
             THEN SetEnc(ui_incoming_msg(win_print(S1, n, "PGP encryption disabled."), n), n, "none")
             ELSE otr_on_message_recv(S1, n, barejid, outcome, trusted)

\* enc: the stanza carries a PGP payload; decrypted: p_gpg_decrypt succeeds
sv_ev_incoming_message(S, barejid, enc, decrypted, outcome, trusted) ==
    LET c == wins_get_chat(S.windows, barejid)
        n == IF c # 0 THEN c ELSE get_next_available_win_num(S.windows)
        S1 == IF c # 0 THEN S ELSE wins_new(S, n, "chat", barejid)
        enc_mode == wins_get_by_num(S1.windows, n).enc_mode
    IN  IF n = 0 THEN Crash(S)
        ELSE IF enc
        THEN IF enc_mode = "otr"
             THEN win_print(S1, n, "PGP encrypted message received whilst in OTR session.")
             ELSE IF decrypted
             THEN SetEnc(ui_incoming_msg(
                      IF enc_mode = "none" THEN win_print(S1, n, "PGP encryption enabled.") ELSE S1,
                      n), n, "pgp")
             ELSE SetEnc(ui_incoming_msg(S1, n), n, "none")
        ELSE IF enc_mode = "pgp"
             THEN SetEnc(ui_incoming_msg(win_print(S1, n, "PGP encryption disabled."), n), n, "none")
             ELSE otr_on_message_recv(S1, n, barejid, outcome, trusted)

\* slip: the window is not looked up before it is created
sv_ev_delayed_message_new_win(S, barejid) ==
    LET n == get_next_available_win_num(S.windows)
    IN  IF n = 0 THEN Crash(S) ELSE ui_incoming_msg(wins_new(S, n, "chat", barejid), n)

sv_ev_delayed_message(S, barejid) ==
    LET c == wins_get_chat(S.windows, barejid)
        n == IF c # 0 THEN c ELSE get_next_available_win_num(S.windows)
        S1 == IF c # 0 THEN S ELSE wins_new(S, n, "chat", barejid)
    IN  IF n = 0 THEN Crash(S) ELSE ui_incoming_msg(S1, n)

sv_ev_incoming_carbon(S, barejid) == sv_ev_delayed_message(S, barejid)

sv_ev_outgoing_carbon(S, barejid) == ui_outgoing_chat_msg_carbon(S, barejid)

sv_ev_incoming_private_message(S, fulljid) == ui_incoming_private_msg(S, fulljid)

sv_ev_room_message(S, roomjid) == ui_room_message(S, roomjid)

sv_ev_subscription(S, barejid) ==
    ui_print_system_msg_from_recipient(cons_show(S, "subscription"), barejid, "subscription")

ui_chat_win_exists(S, barejid) == wins_get_chat(S.windows, barejid) # 0

\* the status line in the chat window of the contact, if there is one
ui_chat_win_contact_line(S, barejid, line) ==
    LET n == wins_get_chat(S.windows, barejid)
    IN  IF n # 0 THEN win_print(S, n, line) ELSE S

\* subscribed: the contact's subscription is not "none"; the statuses
\* preferences are at their default, "all"
ui_contact_online(S, barejid, subscribed) ==
    IF ~subscribed THEN S
    ELSE ui_chat_win_contact_line(cons_show(S, "contact_online"), barejid, "contact_online")

\* a resource that goes offline is no longer pinned by the chat window
ui_contact_offline(S, barejid, resource, subscribed) ==
    LET S1 == IF subscribed
              THEN ui_chat_win_contact_line(cons_show(S, "contact_offline"), barejid,
                                            "contact_offline")
              ELSE S
        n == wins_get_chat(S1.windows, barejid)
        w == wins_get_by_num(S1.windows, n)
    IN  IF n # 0 /\ w.resource_override # "" /\ w.resource_override = resource
        THEN SetWin(S1, n, [w EXCEPT !.resource_override = ""])
        ELSE S1

\* updated: what roster_contact_offline returns; resource "" stands for NULL
sv_ev_contact_offline(S, barejid, resource, updated, subscribed) ==
    chat_session_remove(
        IF resource # "" /\ updated THEN ui_contact_offline(S, barejid, resource, subscribed) ELSE S,
        barejid)

\* slip: the session outlives the presence
sv_ev_contact_online_keeps_session(S, barejid, updated, subscribed) ==
    IF updated THEN ui_contact_online(S, barejid, subscribed) ELSE S

\* updated: what roster_update_presence returns
sv_ev_contact_online(S, barejid, updated, subscribed) ==
    chat_session_remove(IF updated THEN ui_contact_online(S, barejid, subscribed) ELSE S, barejid)

\* an active chat state arrives from the full address barejid/resource
sv_ev_activity(S, barejid, resource) ==
    IF ui_chat_win_exists(S, barejid)
    THEN chat_session_recipient_active(S, barejid, resource) ELSE S

----------------------------------------------------------------------------
(* Rooms: join completion, exit events, configuration forms *)

ui_room_join(S, roomjid, focus) ==
    LET m == wins_get_muc(S.windows, roomjid)
        n == IF m # 0 THEN m ELSE get_next_available_win_num(S.windows)
        S1 == IF m # 0 THEN S ELSE wins_new(S, n, "muc", roomjid)
        S2 == win_print(S1, n, "You have joined the room")
    IN  IF n = 0 THEN Crash(S)
        ELSE IF focus THEN ui_switch_win(S2, n)
        ELSE cons_show(S2, "Autojoined")

\* slip: the block is printed again after it was printed
ui_room_requires_config_twice(S, roomjid) ==
    LET n == wins_get_muc(S.windows, roomjid)
        line == "Room locked, requires configuration."
    IN  IF n = 0 THEN S ELSE win_print(win_print(S, n, line), n, line)

ui_room_requires_config(S, roomjid) ==
    LET n == wins_get_muc(S.windows, roomjid)
    IN  IF n = 0 THEN S ELSE win_print(S, n, "Room locked, requires configuration.")

ui_room_nick_change(S, roomjid) ==
    LET n == wins_get_muc(S.windows, roomjid)
    IN  IF n = 0 THEN S ELSE win_print(S, n, "You are now known as")

\* win_vprint on the window the caller looked up without testing it: n = 0 is
\* a NULL window
win_vprint(S, n, what) == IF n = 0 THEN Crash(S) ELSE win_print(S, n, what)

ui_room_roster(S, roomjid) ==
    LET n == wins_get_muc(S.windows, roomjid)
    IN  IF n = 0 THEN S ELSE win_print(S, n, "occupants")

ui_room_subject(S, roomjid, subject) ==
    LET n == wins_get_muc(S.windows, roomjid)
    IN  IF n = 0 THEN S
        ELSE IF subject # "" THEN win_print(S, n, "Room subject: " \o subject)
        ELSE win_print(S, n, "Room subject cleared")

ui_room_broadcast(S, roomjid, message) ==
    LET n == wins_get_muc(S.windows, roomjid)
    IN  IF n = 0 THEN S ELSE win_print(S, n, "Room message: " \o message)

RECURSIVE ui_room_broadcasts(_, _, _)
ui_room_broadcasts(S, roomjid, pending) ==
    IF pending = <<>> THEN S
    ELSE ui_room_broadcasts(ui_room_broadcast(S, roomjid, Head(pending)), roomjid, Tail(pending))

ui_room_role_change(S, roomjid, role) ==
    win_vprint(S, wins_get_muc(S.windows, roomjid), "Your role has been changed to: " \o role)

ui_room_affiliation_change(S, roomjid, affiliation) ==
    win_vprint(S, wins_get_muc(S.windows, roomjid),
               "Your affiliation has been changed to: " \o affiliation)

ui_room_role_and_affiliation_change(S, roomjid, role, affiliation) ==
    win_vprint(S, wins_get_muc(S.windows, roomjid),
               "Your role and affiliation have been changed, role: " \o role
                   \o ", affiliation: " \o affiliation)

ui_room_occupant_role_change(S, roomjid, nick, role) ==
    win_vprint(S, wins_get_muc(S.windows, roomjid), nick \o "'s role has been changed to: " \o role)

ui_room_occupant_affiliation_change(S, roomjid, nick, affiliation) ==
    win_vprint(S, wins_get_muc(S.windows, roomjid),
               nick \o "'s affiliation has been changed to: " \o affiliation)

ui_room_occupant_role_and_affiliation_change(S, roomjid, nick, role, affiliation) ==
    win_vprint(S, wins_get_muc(S.windows, roomjid),
               nick \o "'s role and affiliation have been changed, role: " \o role
                   \o ", affiliation: " \o affiliation)

\* a line about an occupant, printed if the room has a window
ui_room_member_line(S, roomjid, line) ==
    LET n == wins_get_muc(S.windows, roomjid)
    IN  IF n = 0 THEN S ELSE win_print(S, n, line)

ui_room_member_offline(S, roomjid, nick) ==
    ui_room_member_line(S, roomjid, "<- " \o nick \o " has left the room.")
ui_room_member_kicked(S, roomjid, nick) ==
    ui_room_member_line(S, roomjid, "<- " \o nick \o " has been kicked from the room")
ui_room_member_banned(S, roomjid, nick) ==
    ui_room_member_line(S, roomjid, "<- " \o nick \o " has been banned from the room")
ui_room_member_online(S, roomjid, nick) ==
    ui_room_member_line(S, roomjid, "-> " \o nick \o " has joined the room")
ui_room_member_presence(S, roomjid, nick, show) ==
    ui_room_member_line(S, roomjid, "++ " \o nick \o " is " \o show)
ui_room_member_nick_change(S, roomjid, old_nick, nick) ==
    ui_room_member_line(S, roomjid, "** " \o old_nick \o " is now known as " \o nick)
ui_room_history(S, roomjid) == ui_room_member_line(S, roomjid, "room_history")

\* slip: a change of both is reported as two changes
sv_ev_muc_occupant_online_two_lines(S, room, nick, role, affiliation, show, old_nick, statuses, privileges) ==
    LET S1 == muc_roster_add(S, room, nick, role, affiliation, show)
        old == muc_roster_item(S, room, nick)
        S2 == IF role # old.role THEN ui_room_occupant_role_change(S1, room, nick, role) ELSE S1
    IN  IF ~muc_roster_complete(S, room) \/ ~muc_roster_contains_nick(S, room, nick) THEN S1
        ELSE IF old_nick # "" \/ muc_roster_updated(S, room, nick, show) \/ ~privileges THEN S1
        ELSE IF affiliation # old.affiliation
        THEN ui_room_occupant_affiliation_change(S2, room, nick, affiliation)
        ELSE S2

\* old_nick: what muc_roster_nick_change_complete returns ("" for NULL);
\* statuses: PREF_STATUSES_MUC; privileges: PREF_MUC_PRIVILEGES
sv_ev_muc_occupant_online(S, room, nick, role, affiliation, show, old_nick, statuses, privileges) ==
    LET occupant == muc_roster_contains_nick(S, room, nick)
        old_role == IF occupant THEN muc_occupant_role_str(muc_roster_item(S, room, nick)) ELSE ""
        old_affiliation ==
            IF occupant THEN muc_occupant_affiliation_str(muc_roster_item(S, room, nick)) ELSE ""
        updated == muc_roster_updated(S, room, nick, show)
        S1 == muc_roster_add(S, room, nick, role, affiliation, show)
    IN  IF ~muc_roster_complete(S1, room) THEN S1
        ELSE IF old_nick # "" THEN ui_room_member_nick_change(S1, room, old_nick, nick)
        ELSE IF ~occupant
        THEN IF statuses # "none" THEN ui_room_member_online(S1, room, nick) ELSE S1
        ELSE IF updated
        THEN IF statuses = "all" THEN ui_room_member_presence(S1, room, nick, show) ELSE S1
        ELSE IF ~privileges THEN S1
        ELSE IF role # old_role /\ affiliation # old_affiliation
        THEN ui_room_occupant_role_and_affiliation_change(S1, room, nick, role, affiliation)
        ELSE IF role # old_role THEN ui_room_occupant_role_change(S1, room, nick, role)
        ELSE IF affiliation # old_affiliation
        THEN ui_room_occupant_affiliation_change(S1, room, nick, affiliation)
        ELSE S1

sv_ev_room_occupant_offline(S, room, nick, statuses) ==
    LET S1 == muc_roster_remove(S, room, nick)
    IN  IF statuses # "none" THEN ui_room_member_offline(S1, room, nick) ELSE S1

sv_ev_room_occupent_kicked(S, room, nick) ==
    ui_room_member_kicked(muc_roster_remove(S, room, nick), room, nick)

sv_ev_room_occupent_banned(S, room, nick) ==
    ui_room_member_banned(muc_roster_remove(S, room, nick), room, nick)

sv_ev_room_history(S, room_jid) == ui_room_history(S, room_jid)

\* occupants: PREF_OCCUPANTS; privileges: PREF_MUC_PRIVILEGES
sv_ev_muc_self_online(S, room, config_required, role, affiliation, occupants, privileges) ==
    LET old_role == muc_role_str(S, room)
        old_affiliation == muc_affiliation_str(S, room)
        S0 == muc_set_affiliation(muc_set_role(S, room, role), room, affiliation)
    IN  IF muc_nick_change_pending(S0, room)
        THEN ui_room_nick_change(muc_nick_change_complete(S0, room), room)
        ELSE IF ~muc_roster_complete(S0, room)
        THEN LET S1 == ui_room_join(S0, room, ~muc_autojoin(S0, room))
                 S2 == muc_roster_set_complete(
                           muc_invites_remove(Send(S1, "iq_room_info_request", room), room),
                           room)
                 S3 == IF ~occupants THEN ui_room_roster(S2, room) ELSE S2
                 S4 == IF muc_subject(S3, room) # ""
                       THEN ui_room_subject(S3, room, muc_subject(S3, room)) ELSE S3
                 S5 == ui_room_broadcasts(S4, room, muc_pending_broadcasts(S4, room))
             IN  IF S1.crashed THEN S1
                 ELSE IF config_required
                 THEN ui_room_requires_config(muc_set_requires_config(S5, room, TRUE), room)
                 ELSE S5
        ELSE IF ~privileges THEN S0
        ELSE IF role # old_role /\ affiliation # old_affiliation
        THEN ui_room_role_and_affiliation_change(S0, room, role, affiliation)
        ELSE IF role # old_role THEN ui_room_role_change(S0, room, role)
        ELSE IF affiliation # old_affiliation THEN ui_room_affiliation_change(S0, room, affiliation)
        ELSE S0

\* slip: the invite is recorded whatever the room's state
sv_ev_room_invite_unchecked(S, room) ==
    muc_invites_add(cons_show(S, "room_invite"), room)

sv_ev_room_invite(S, room) ==
    IF ~muc_active(S, room) /\ ~muc_invites_contain(S, room)
    THEN muc_invites_add(cons_show(S, "room_invite"), room)
    ELSE S

\* slip: the broadcast is shown at once, joined or not
sv_ev_room_broadcast_unqueued(S, room_jid, message) ==
    ui_room_broadcast(S, room_jid, message)

sv_ev_room_broadcast(S, room_jid, message) ==
    IF muc_roster_complete(S, room_jid)
    THEN ui_room_broadcast(S, room_jid, message)
    ELSE muc_pending_broadcasts_add(S, room_jid, message)

sv_ev_room_subject(S, room, subject) ==
    LET S1 == muc_set_subject(S, room, subject)
    IN  IF muc_roster_complete(S1, room) THEN ui_room_subject(S1, room, subject) ELSE S1

\* ui_room_kicked, ui_room_banned, ui_room_destroyed, ui_room_destroy
ui_room_exit(S, roomjid, line) ==
    LET n == wins_get_muc(S.windows, roomjid)
    IN  IF n = 0 THEN S ELSE cons_show(ui_close_win(S, n), line)

sv_ev_leave_room(S, room) == ui_leave_room(muc_leave(S, room), room)
sv_ev_room_destroy(S, room) == ui_room_exit(muc_leave(S, room), room, "Room destroyed")
sv_ev_room_destroyed(S, room) == ui_room_exit(muc_leave(S, room), room, "Room destroyed")
sv_ev_room_kicked(S, room) == ui_room_exit(muc_leave(S, room), room, "Kicked from")
sv_ev_room_banned(S, room) == ui_room_exit(muc_leave(S, room), room, "Banned from")

ui_handle_room_configuration(S, roomjid) ==
    LET n == get_next_available_win_num(S.windows)
    IN  IF n = 0 THEN Crash(S)
        ELSE win_print(ui_switch_win(wins_new(S, n, "muc_config", roomjid), n),
                       n, "Use '/form submit' to save changes.")

\* the form window is looked up under the recipient "<roomjid> config"
ConfRecipient(roomjid) == roomjid \o " config"

ui_handle_room_config_submit_result(S, roomjid) ==
    LET m == wins_get_muc(S.windows, roomjid)
        f == wins_get_muc_conf(S.windows, ConfRecipient(roomjid))
        S1 == IF f # 0 THEN wins_close_by_num(S, f) ELSE S
        m1 == wins_get_muc(S1.windows, roomjid)
    IN  IF m # 0
        THEN win_print(ui_switch_win(S1, m1), m1, "Room configuration successful")
        ELSE cons_show(ui_switch_win(S1, 1), "Room configuration successful")

----------------------------------------------------------------------------
(* commands.c and client_events.c: user commands; the command's window     *)
(* argument is the current window                                          *)

CurWin(S) == wins_get_by_num(S.windows, S.current)

Connected == conn_status = "connected"

cl_ev_send_msg(S, n) ==
    LET w == wins_get_by_num(S.windows, n)
    IN  IF w.enc_mode \in {"none", "otr"}
        THEN IF otr_is_secure(S, w.key)
             THEN win_print(message_send_chat(S, "message_send_chat_otr", w.key), n, "outgoing_message")
             ELSE win_print(message_send_chat(S, "message_send_chat", w.key), n, "outgoing_message")
        ELSE win_print(message_send_chat(S, "message_send_chat_pgp", w.key), n, "outgoing_message")

cl_ev_send_priv_msg(S, n) ==
    LET w == wins_get_by_num(S.windows, n)
    IN  win_print(Send(S, "message_send_private", w.key), n, "outgoing_message")

cl_ev_send_muc_msg(S, n) ==
    Send(S, "message_send_groupchat", wins_get_by_num(S.windows, n).key)

cmd_win(S, num) ==
    IF ~wins_exists(S.windows, num)
    THEN cons_show(S, "Window does not exist.")
    ELSE ui_switch_win(S, num)

\* the line /close all and /close read report their count with
ClosedLine(count) ==
    IF count = 0 THEN "No windows to close."
    ELSE IF count = 1 THEN "Closed 1 window."
    ELSE "Closed " \o ToString(count) \o " windows."

\* slip: the console slot is not refused
cmd_close_any_slot(S, arg, idx, connected, auto_tidy) ==
    IF arg \in {"", "num"}
    THEN cons_show(ui_close_win(S, IF arg = "" THEN S.current ELSE idx), "Closed window")
    ELSE S

\* arg is "" (no argument), "all", "read" or "num" (a slot number, given as index)
cmd_close(S, arg, idx, connected, auto_tidy) ==
    LET index == IF arg = "" THEN S.current ELSE idx
        ra == ui_close_all_wins(S, connected)
        rr == ui_close_read_wins(S, connected)
        S1 == IF connected THEN ui_close_connected_win(S, index) ELSE S
        S2 == cons_show(ui_close_win(S1, index), "Closed window")
    IN  IF arg = "all"
        THEN cons_show(ra.s, ClosedLine(ra.count))
        ELSE IF arg = "read"
        THEN cons_show(rr.s, ClosedLine(rr.count))
        ELSE IF index < 0 \/ index = 10
        THEN cons_show(S, "No such window exists.")
        ELSE IF index = 1
        THEN cons_show(S, "Cannot close console window.")
        ELSE IF ~wins_exists(S.windows, index)
        THEN cons_show(S, "Window is not open.")
        ELSE IF ui_win_has_unsaved_form(S, index)
        THEN ui_current_print_line(S, "You have unsaved changes, use /form submit or /form cancel")
        ELSE IF auto_tidy THEN wins_tidy(S2) ELSE S2

\* slip: the kind of the current window is not looked at
cmd_leave_any_window(S, connected) ==
    ui_close_win(IF connected THEN ui_close_connected_win(S, S.current) ELSE S, S.current)

cmd_leave(S, connected) ==
    LET index == S.current
        S1 == IF connected THEN ui_close_connected_win(S, index) ELSE S
    IN  IF CurWin(S).type # "muc"
        THEN cons_show(S, "You can only use the /leave command in a chat room.")
        ELSE ui_close_win(S1, index)

\* the line /wins swap reports a failed swap with
NoWindowLine(source_win) == "Window " \o ToString(source_win) \o " does not exist"

\* slip: a window is moved into an empty target slot
cmd_wins_swap_moves(S, sub, source_win, target_win) ==
    IF sub = "swap" /\ wins_exists(S.windows, source_win) /\ ~wins_exists(S.windows, target_win)
    THEN cons_show([S EXCEPT !.windows = {IF w.num = source_win THEN [w EXCEPT !.num = target_win]
                                          ELSE w : w \in @}],
                   "Swapped windows")
    ELSE S

\* sub is "tidy", "prune" or "swap"
cmd_wins(S, sub, source_win, target_win) ==
    LET T == wins_tidy(S)
        W == wins_swap(S, source_win, target_win)
    IN  CASE sub = "tidy" ->
               cons_show(T, IF wins_tidy_needed(S.windows) THEN "Windows tidied." ELSE "No tidy needed.")
          [] sub = "prune" -> ui_prune_wins(S)
          [] OTHER ->
               IF source_win = 1 \/ target_win = 1
               THEN cons_show(S, "Cannot move console window.")
               ELSE IF source_win = 10 \/ target_win = 10
               THEN cons_show(S, "Window 10 does not exist")
               ELSE IF source_win # target_win
               THEN cons_show(W, IF wins_swap_ok(S.windows, source_win, target_win)
                                 THEN "Swapped windows" ELSE NoWindowLine(source_win))
               ELSE cons_show(S, "Same source and target window supplied.")

\* usr is a contact (bare address) or a nick; in_room: the room roster holds the nick
cmd_msg(S, usr, has_msg, in_room, trusted, connected) ==
    LET w == CurWin(S)
        fulljid == w.key \o "/" \o usr
        p == wins_get_private(S.windows, fulljid)
        pn == IF p # 0 THEN p ELSE get_next_available_win_num(S.windows)
        P1 == ui_switch_win(IF p # 0 THEN S ELSE wins_new(S, pn, "private", fulljid), pn)
        c == wins_get_chat(S.windows, usr)
        cn == IF c # 0 THEN c ELSE get_next_available_win_num(S.windows)
        C1 == ui_switch_win(IF c # 0 THEN S ELSE ui_new_chat_win(S, cn, usr), cn)
    IN  IF ~connected
        THEN cons_show(S, "You are not currently connected.")
        ELSE IF w.type = "muc"
        THEN IF in_room
             THEN IF pn = 0 THEN Crash(S)
                  ELSE IF has_msg THEN cl_ev_send_priv_msg(P1, pn) ELSE P1
             ELSE ui_current_print_line(S, "No such participant in room.")
        ELSE IF cn = 0 THEN Crash(S)
             ELSE IF has_msg THEN cl_ev_send_msg(C1, cn)
             ELSE IF otr_is_secure(C1, usr) THEN ui_gone_secure(C1, usr, trusted)
             ELSE C1

\* sub is "start", "end", "trust" or "untrust"; contact is "" when no recipient is given
cmd_otr(S, sub, contact, key_loaded, trusted, connected) ==
    LET w == CurWin(S)
        c == wins_get_chat(S.windows, contact)
        cn == IF c # 0 THEN c ELSE get_next_available_win_num(S.windows)
        C1 == ui_switch_win(IF c # 0 THEN S ELSE ui_new_chat_win(S, cn, contact), cn)
        cw == wins_get_by_num(C1.windows, cn)
    IN  IF ~connected
        THEN cons_show(S, "You must be connected with an account to load OTR information.")
        ELSE IF sub = "start" /\ contact # ""
        THEN IF cn = 0 THEN Crash(S)
             ELSE IF cw.enc_mode = "pgp"
             THEN ui_current_print_line(C1, "You must disable PGP encryption before starting an OTR session.")
             ELSE IF cw.enc_mode = "otr"
             THEN ui_current_print_line(C1, "You are already in an OTR session.")
             ELSE IF ~key_loaded
             THEN ui_current_print_line(C1, "You have not generated or loaded a private key, use '/otr gen'")
             ELSE IF ~otr_is_secure(C1, contact)
             THEN Send(C1, "otr_query", contact)
             ELSE ui_gone_secure(C1, contact, trusted)
        ELSE IF sub = "start"
        THEN IF w.type # "chat"
             THEN ui_current_print_line(S, "You must be in a regular chat window to start an OTR session.")
             ELSE IF w.enc_mode = "pgp"
             THEN ui_current_print_line(S, "You must disable PGP encryption before starting an OTR session.")
             ELSE IF w.enc_mode = "otr"
             THEN ui_current_print_line(S, "You are already in an OTR session.")
             ELSE IF ~key_loaded
             THEN ui_current_print_line(S, "You have not generated or loaded a private key, use '/otr gen'")
             ELSE Send(S, "otr_query", w.key)
        ELSE IF w.type # "chat"
        THEN ui_current_print_line(S, "You must be in a regular chat window to use OTR.")
        ELSE IF w.enc_mode # "otr"
        THEN ui_current_print_line(S, "You are not currently in an OTR session.")
        ELSE CASE sub = "end" -> otr_end_session(ui_gone_insecure(S, w.key), w.key)
               [] sub = "trust" -> ui_trust(S, w.key)
               [] OTHER -> ui_untrust(S, w.key)

\* slip: /pgp start does not look at the window's mode
cmd_pgp_over_otr(S, sub, contact, valid_key, available, connected) ==
    LET c == wins_get_chat(S.windows, contact)
        n == IF contact = "" THEN S.current ELSE c
    IN  IF sub = "start" /\ connected /\ n # 0 /\ wins_get_by_num(S.windows, n).type = "chat"
        THEN ui_current_print_line(SetEnc(ui_switch_win(S, n), n, "pgp"), "PGP encyption enabled.")
        ELSE S

\* sub is "start" or "end"; valid_key: the account has a valid key id;
\* available: a public key is known for the counterpart
cmd_pgp(S, sub, contact, valid_key, available, connected) ==
    LET w == CurWin(S)
        c == wins_get_chat(S.windows, contact)
        cn == IF contact = "" THEN S.current
              ELSE IF c # 0 THEN c ELSE get_next_available_win_num(S.windows)
        C1 == IF contact = "" THEN S
              ELSE ui_switch_win(IF c # 0 THEN S ELSE ui_new_chat_win(S, cn, contact), cn)
        cw == wins_get_by_num(C1.windows, cn)
    IN  IF sub = "start"
        THEN IF ~connected
             THEN cons_show(S, "You must be connected to start PGP encrpytion.")
             ELSE IF w.type # "chat" /\ contact = ""
             THEN cons_show(S, "You must be in a regular chat window to start PGP encrpytion.")
             ELSE IF cn = 0 THEN Crash(S)
             ELSE IF cw.enc_mode = "otr"
             THEN ui_current_print_line(C1, "You must end the OTR session to start PGP encryption.")
             ELSE IF cw.enc_mode = "pgp"
             THEN ui_current_print_line(C1, "You have already started PGP encryption.")
             ELSE IF ~valid_key
             THEN ui_current_print_line(C1, "You must specify a valid PGP key ID for this account to start PGP encryption.")
             ELSE IF ~available
             THEN ui_current_print_line(C1, "No PGP key found.")
             ELSE ui_current_print_line(SetEnc(C1, cn, "pgp"), "PGP encyption enabled.")
        ELSE IF ~connected
             THEN cons_show(S, "You are not currently connected.")
             ELSE IF w.type # "chat"
             THEN cons_show(S, "You must be in a regular chat window to end PGP encrpytion.")
             ELSE IF w.enc_mode # "pgp"
             THEN ui_current_print_line(S, "PGP encryption is not currently enabled.")
             ELSE ui_current_print_line(SetEnc(S, S.current, "none"), "PGP encyption disabled.")

\* sub is "submit", "cancel" or "show".  confwin->roomjid is read after
\* wins_close_current destroyed the window: freed_read is what that read yields
cmd_form(S, sub, freed_read, connected) ==
    LET w == CurWin(S)
        S1 == IF sub = "submit" THEN Send(S, "iq_submit_room_config", w.key)
              ELSE Send(S, "iq_room_config_cancel", w.key)
        S2 == wins_close_current(cmd_autocomplete_remove_form_fields(S1, w.key))
        m == wins_get_muc(S2.windows, freed_read)
    IN  IF ~connected
        THEN cons_show(S, "You are not currently connected.")
        ELSE IF w.type # "muc_config"
        THEN cons_show(S, "Command '/form' does not apply to this window.")
        ELSE IF sub = "show"
        THEN ui_current_print_line(S, "form")
        ELSE ui_switch_win(S2, IF m # 0 THEN m ELSE 1)

\* a field command that sets a value: form_set_value marks the form modified
cmd_form_field(S) ==
    LET w == CurWin(S)
    IN  IF w.type # "muc_config" THEN S
        ELSE ui_current_print_line(SetWin(S, S.current, [w EXCEPT !.modified = TRUE]),
                                   "Field updated...")

\* sub is "accept", "destroy" or "config"
cmd_room(S, sub, connected) ==
    LET w == CurWin(S)
        f == wins_get_muc_conf(S.windows, w.key)
    IN  IF ~connected
        THEN cons_show(S, "You are not currently connected.")
        ELSE IF w.type # "muc"
        THEN cons_show(S, "Command '/room' does not apply to this window.")
        ELSE CASE sub = "accept" ->
                    IF ~muc_requires_config(S, w.key)
                    THEN ui_current_print_line(S, "Current room does not require configuration.")
                    ELSE ui_current_print_line(
                             muc_set_requires_config(Send(S, "iq_confirm_instant_room", w.key), w.key, FALSE),
                             "Room unlocked.")
               [] sub = "destroy" -> Send(S, "iq_destroy_room", w.key)
               [] OTHER ->
                    IF f # 0 THEN ui_switch_win(S, f)
                    ELSE Send(S, "iq_request_room_config_form", w.key)

ui_switch_to_room(S, roomjid) == ui_switch_win(S, wins_get_muc(S.windows, roomjid))

cmd_join(S, room, connected) ==
    IF ~connected
    THEN cons_show(S, "You are not currently connected.")
    ELSE IF ~muc_active(S, room)
    THEN muc_join(Send(S, "presence_join_room", room), room, FALSE)
    ELSE IF muc_roster_complete(S, room)
    THEN ui_switch_to_room(S, room)
    ELSE S

\* a call into a module that keeps no state of this model
Notify(S, what) == Emit(S, "call", what, "", "")

jabber_disconnect(S) == [S EXCEPT !.conn_status = "disconnected"]

roster_clear(S) == Notify(S, "roster_clear")

ui_disconnected(S) ==
    Notify(Notify(Notify(Notify(Notify(S, "wins_lost_connection"),
                                "title_bar_set_presence(CONTACT_OFFLINE)"),
                         "status_bar_clear_message"),
                  "status_bar_update_virtual"),
           "ui_hide_roster")

p_gpg_on_disconnect(S) == Notify(S, "p_gpg_on_disconnect")

\* slip: the pending invites survive the disconnect
cmd_disconnect_keeps_invites(S) ==
    IF S.conn_status = "connected"
    THEN p_gpg_on_disconnect(ui_disconnected(chat_sessions_clear(
             roster_clear(jabber_disconnect(cons_show(S, "logged out successfully."))))))
    ELSE cons_show(S, "You are not currently connected.")

cmd_disconnect(S) ==
    IF S.conn_status = "connected"
    THEN p_gpg_on_disconnect(ui_disconnected(chat_sessions_clear(muc_invites_clear(
             roster_clear(jabber_disconnect(cons_show(S, "logged out successfully.")))))))
    ELSE cons_show(S, "You are not currently connected.")

sv_ev_lost_connection(S) ==
    p_gpg_on_disconnect(ui_disconnected(chat_sessions_clear(muc_invites_clear(
        roster_clear(cons_show(S, "Lost connection."))))))

cmd_decline(S, room) ==
    IF ~muc_invites_contain(S, room)
    THEN cons_show(S, "No such invite exists.")
    ELSE cons_show(muc_invites_remove(S, room), "Declined invite to " \o room)

BadUsage(command) == "Invalid usage, see '/help " \o command \o "' for details."

cons_bad_cmd_usage(S, command) == cons_show(S, BadUsage(command))

\* a call into the chat-state or chat-session module for the counterpart barejid
Call(S, what, barejid) == Emit(S, "call", what, "chat", barejid)

\* cmd is "set", "off", "message", "title" or anything else; resource is "" when
\* none is given; in_roster: roster_get_contact finds the counterpart;
\* available: p_contact_get_resource finds the resource
cmd_resource(S, cmd, resource, in_roster, available) ==
    LET w == CurWin(S)
        renewed == Call(Call(S, "chat_state_free", w.key), "chat_state_new", w.key)
    IN  IF cmd \in {"message", "title"}
        THEN IF resource = "" THEN cons_bad_cmd_usage(S, "resource")
             ELSE cons_show(S, cmd \o " resource preference set")
        ELSE IF w.type # "chat"
        THEN cons_show(S, "Resource can only be changed in chat windows.")
        ELSE CASE cmd = "set" ->
                    IF resource = ""
                    THEN cons_bad_cmd_usage(S, "resource")
                    ELSE IF otr_is_secure(S, w.key)
                    THEN cons_show(S, "Cannot choose resource during an OTR session.")
                    ELSE IF ~in_roster
                    THEN cons_show(S, "Cannot choose resource for contact not in roster.")
                    ELSE IF ~available
                    THEN cons_show(S, "No such resource " \o resource \o ".")
                    ELSE Call(chat_session_resource_override(
                                  SetWin(renewed, S.current, [w EXCEPT !.resource_override = resource]),
                                  w.key, resource),
                              "chat_session_resource_override", w.key)
               [] cmd = "off" ->
                    Call(chat_session_remove(
                             SetWin(renewed, S.current, [w EXCEPT !.resource_override = ""]), w.key),
                         "chat_session_remove", w.key)
               [] OTHER -> cons_bad_cmd_usage(S, "resource")

\* inp is "text" (a line that is no command) or "/unknown"
cmd_execute_default(S, inp, connected) ==
    LET w == CurWin(S)
    IN  IF inp = "/unknown"
        THEN cons_show(S, "Unknown command: " \o inp)
        ELSE IF w.type \notin {"chat", "muc", "private"}
        THEN cons_show(S, "Unknown command: " \o inp)
        ELSE IF ~connected
        THEN ui_current_print_line(S, "You are not currently connected.")
        ELSE CASE w.type = "chat" -> cl_ev_send_msg(S, S.current)
               [] w.type = "private" -> cl_ev_send_priv_msg(S, S.current)
               [] OTHER -> cl_ev_send_muc_msg(S, S.current)

\* valid: tinyurl_valid(url); tiny: tinyurl_get(url) returned a short url
cmd_tiny(S, valid, tiny) ==
    LET w == CurWin(S)
    IN  IF w.type \notin {"chat", "muc", "private"}
        THEN cons_show(S, "/tiny can only be used in chat windows")
        ELSE IF ~valid
        THEN ui_current_print_line(S, "/tiny, badly formed URL")
        ELSE IF ~tiny
        THEN ui_current_print_line(S, "Couldn't create tinyurl.")
        ELSE CASE w.type = "chat" -> cl_ev_send_msg(S, S.current)
               [] w.type = "private" -> cl_ev_send_priv_msg(S, S.current)
               [] OTHER -> cl_ev_send_muc_msg(S, S.current)

\* nick is "" when no argument is given
cmd_kick(S, nick, connected) ==
    LET w == CurWin(S)
    IN  IF ~connected
        THEN cons_show(S, "You are not currently connected.")
        ELSE IF w.type # "muc"
        THEN cons_show(S, "Command '/kick' only applies in chat rooms.")
        ELSE IF nick = ""
        THEN cons_bad_cmd_usage(S, "kick")
        ELSE IF muc_roster_contains_nick(S, w.key, nick)
        THEN Send(S, "iq_room_kick_occupant", w.key)
        ELSE ui_current_print_line(S, "Occupant does not exist: " \o nick)

\* jid is "" when no argument is given
cmd_ban(S, jid, connected) ==
    LET w == CurWin(S)
    IN  IF ~connected
        THEN cons_show(S, "You are not currently connected.")
        ELSE IF w.type # "muc"
        THEN cons_show(S, "Command '/ban' only applies in chat rooms.")
        ELSE IF jid = ""
        THEN cons_bad_cmd_usage(S, "ban")
        ELSE Send(S, "iq_room_affiliation_set", w.key)

\* sub is "" (show), "set", "clear" or anything else; has_arg: a subject follows "set"
cmd_subject(S, sub, has_arg, connected) ==
    LET w == CurWin(S)
    IN  IF ~connected
        THEN cons_show(S, "You are not currently connected.")
        ELSE IF w.type # "muc"
        THEN cons_show(S, "Command '/room' does not apply to this window.")
        ELSE CASE sub = "" ->
                    IF muc_subject(S, w.key) # ""
                    THEN ui_current_print_line(S, "Room subject: " \o muc_subject(S, w.key))
                    ELSE ui_current_print_line(S, "Room has no subject")
               [] sub = "set" ->
                    IF has_arg THEN Send(S, "message_send_groupchat_subject", w.key)
                    ELSE cons_bad_cmd_usage(S, "subject")
               [] sub = "clear" -> Send(S, "message_send_groupchat_subject", w.key)
               [] OTHER -> cons_bad_cmd_usage(S, "subject")

RECURSIVE SendTimes(_, _, _, _)
\* the same request sent n times (one per affiliation or role listed)
SendTimes(S, what, to, n) ==
    IF n = 0 THEN S ELSE SendTimes(Send(S, what, to), what, to, n - 1)

\* /affiliation and /role share their shape.  cmd is "" (absent), "list", "set"
\* or anything else; value is "" (absent), "none", a value of known, or
\* anything else; who: a jid or nick follows
PrivilegeCmd(S, name, known, cmd, value, who, connected) ==
    LET w == CurWin(S)
    IN  IF ~connected
        THEN cons_show(S, "You are not currently connected.")
        ELSE IF w.type # "muc"
        THEN cons_show(S, "Command '/" \o name \o "' does not apply to this window.")
        ELSE IF cmd = ""
        THEN cons_bad_cmd_usage(S, name)
        ELSE IF value # "" /\ value \notin known \cup {"none"}
        THEN cons_bad_cmd_usage(S, name)
        ELSE CASE cmd = "list" ->
                    IF value = ""
                    THEN SendTimes(S, "iq_room_" \o name \o "_list", w.key, Cardinality(known))
                    ELSE IF value = "none"
                    THEN ui_current_print_line(S, "Cannot list users with no " \o name \o ".")
                    ELSE Send(S, "iq_room_" \o name \o "_list", w.key)
               [] cmd = "set" ->
                    IF value = "" \/ ~who
                    THEN cons_bad_cmd_usage(S, name)
                    ELSE Send(S, "iq_room_" \o name \o "_set", w.key)
               [] OTHER -> cons_bad_cmd_usage(S, name)

cmd_affiliation(S, cmd, affiliation, jid, connected) ==
    PrivilegeCmd(S, "affiliation", {"owner", "admin", "member", "outcast"},
                 cmd, affiliation, jid, connected)

cmd_role(S, cmd, role, nick, connected) ==
    PrivilegeCmd(S, "role", {"moderator", "participant", "visitor"}, cmd, role, nick, connected)

\* arg is "on", "off" or anything else
cmd_chlog(S, arg) ==
    IF arg = "on" THEN prefs_set_boolean(cons_show(S, "Chat logging enabled."), "chlog", TRUE)
    ELSE IF arg = "off"
    THEN prefs_set_boolean(
             prefs_set_boolean(cons_show(S, "Chat logging disabled."), "chlog", FALSE),
             "history", FALSE)
    ELSE cons_bad_cmd_usage(S, "chlog")

cmd_history(S, arg) ==
    IF arg = "on"
    THEN prefs_set_boolean(
             prefs_set_boolean(cons_show(S, "Chat history enabled."), "history", TRUE),
             "chlog", TRUE)
    ELSE IF arg = "off"
    THEN prefs_set_boolean(cons_show(S, "Chat history disabled."), "history", FALSE)
    ELSE cons_bad_cmd_usage(S, "history")

prefs_get_gone(S) == S.gone

prefs_set_gone(S, value) == [S EXCEPT !.gone = value]

\* arg is "on", "off" or anything else; the helper returns TRUE in every case
cmd_set_boolean_preference(S, arg, command, display, pref) ==
    IF arg = "on" THEN prefs_set_boolean(cons_show(S, display \o " enabled."), pref, TRUE)
    ELSE IF arg = "off" THEN prefs_set_boolean(cons_show(S, display \o " disabled."), pref, FALSE)
    ELSE cons_bad_cmd_usage(S, command)

\* slip: switching the states off leaves the gone period as it is
cmd_states_keeps_gone(S, arg) ==
    LET S1 == cmd_set_boolean_preference(S, arg, "states", "Sending chat states", "states")
    IN  IF arg = "off" THEN prefs_set_boolean(S1, "outtype", FALSE) ELSE S1

cmd_states(S, arg) ==
    LET S1 == cmd_set_boolean_preference(S, arg, "states", "Sending chat states", "states")
    IN  IF arg = "off" THEN prefs_set_gone(prefs_set_boolean(S1, "outtype", FALSE), 0) ELSE S1

cmd_outtype(S, arg) ==
    LET S1 == cmd_set_boolean_preference(S, arg, "outtype", "Sending typing notifications",
                                         "outtype")
    IN  IF arg = "on" THEN prefs_set_boolean(S1, "states", TRUE) ELSE S1

\* the values /gone is typed with, and what atoi makes of them
GoneArgs == {"0", "1", "2", "-1", "abc"}

atoi(value) ==
    CASE value = "0" -> 0
      [] value = "1" -> 1
      [] value = "2" -> 2
      [] value = "-1" -> 0 - 1
      [] OTHER -> 0

cmd_gone(S, value) ==
    LET period == atoi(value)
        S1 == prefs_set_gone(S, period)
        S2 == IF period = 0
              THEN cons_show(S1, "Automatic leaving conversations after period disabled.")
              ELSE IF period = 1
              THEN cons_show(S1, "Leaving conversations after 1 minute of inactivity.")
              ELSE cons_show(S1, "Leaving conversations after %d minutes of inactivity.")
    IN  IF period > 0 THEN prefs_set_boolean(S2, "states", TRUE) ELSE S2

cmd_nick(S, connected) ==
    LET w == CurWin(S)
    IN  IF ~connected
        THEN cons_show(S, "You are not currently connected.")
        ELSE IF w.type # "muc"
        THEN cons_show(S, "You can only change your nickname in a chat room window.")
        ELSE Send(S, "presence_change_room_nick", w.key)

----------------------------------------------------------------------------
(* The state machine *)

Init ==
    /\ windows = {Console}
    /\ current = 1
    /\ conn_status = "disconnected"
    /\ otr_secure = {}
    /\ muc = [r \in Rooms |-> InitRoom]
    /\ received = [c \in Contacts |-> 0]
    /\ prefs = {}
    /\ gone = 0
    /\ invites = [r \in InviteRooms |-> 0]
    /\ chat_sessions = [c \in Contacts |-> ""]
    /\ form_ac = {}
    /\ iq_pending = [r \in Rooms |-> [config |-> 0, submit |-> 0]]
    /\ crashed = FALSE
    /\ bar = NoBar
    /\ op = NoOp
    /\ out = <<>>

CountOut(o, e) == Cardinality({i \in 1..Len(o) : o[i] = e})

\* inbound messages shown in the chat window of c since it was opened or last current
Received(S, c) ==
    LET n == wins_get_chat(S.windows, c)
    IN  IF n = 0 \/ S.current = n THEN 0
        ELSE received[c] + CountOut(S.out, <<"print", "incoming_message", "chat", c>>)

Pending(S, r) ==
    [config |-> iq_pending[r].config
                  + CountOut(S.out, <<"send", "iq_request_room_config_form", "", r>>),
     submit |-> iq_pending[r].submit
                  + CountOut(S.out, <<"send", "iq_submit_room_config", "", r>>)]

\* the handler's result becomes the program state
Commit(S, o) ==
    /\ windows' = S.windows
    /\ current' = S.current
    /\ otr_secure' = S.otr_secure
    /\ muc' = S.muc
    /\ prefs' = S.prefs
    /\ gone' = S.gone
    /\ invites' = S.invites
    /\ chat_sessions' = S.chat_sessions
    /\ form_ac' = S.form_ac
    /\ crashed' = S.crashed
    /\ bar' = S.bar
    /\ out' = S.out
    /\ op' = o
    /\ received' = [c \in Contacts |-> Received(S, c)]

CommitCmd(S, o) ==
    /\ Commit(S, o)
    /\ iq_pending' = [r \in Rooms |-> Pending(S, r)]
    /\ UNCHANGED conn_status

CommitEv(S, o) ==
    /\ Commit(S, o)
    /\ UNCHANGED <<iq_pending, conn_status>>

\* room for one more unread message in the window of kind t and key k
BelowMaxUnread(t, k, cap) ==
    \A w \in windows : (w.type = t /\ w.key = k) => w.unread < cap

\* encryption mode of the chat window of c ("none" when there is no window)
ChatMode(c) ==
    LET n == wins_get_chat(windows, c)
    IN  IF n = 0 THEN "none" ELSE wins_get_by_num(windows, n).enc_mode

Running == ~crashed
Online == ~crashed /\ Connected

(* connection *)

Login ==
    /\ Running /\ conn_status = "disconnected"
    /\ conn_status' = "connected"
    /\ otr_secure' = {}
    /\ op' = MkOp("sv_ev_login_account_success", "", 0, "")
    /\ out' = <<>>
    /\ bar' = NoBar
    /\ UNCHANGED <<windows, current, muc, received, prefs, gone, invites, chat_sessions,
                    form_ac, iq_pending, crashed>>

\* the connection is gone: the requests in flight get no result
CommitOffline(S, o) ==
    /\ Commit(S, o)
    /\ conn_status' = S.conn_status
    /\ iq_pending' = [r \in Rooms |-> [config |-> 0, submit |-> 0]]

\* the connection the event reports as lost is down when the handler runs
LostConnection == [St EXCEPT !.conn_status = "disconnected"]

\* cmd_disconnect while connected, and sv_ev_lost_connection
Disconnect ==
    /\ Online
    /\ \/ CommitOffline(cmd_disconnect(St), MkOp("cmd_disconnect", "", 0, ""))
       \/ CommitOffline(sv_ev_lost_connection(LostConnection),
                        MkOp("sv_ev_lost_connection", "", 0, ""))

\* /disconnect typed without a connection
CmdDisconnectOffline ==
    /\ Running /\ ~Connected
    /\ CommitCmd(cmd_disconnect(St), MkOp("cmd_disconnect", "", 0, "offline"))

(* inbound events *)

\* what an inbound chat stanza is: its PGP payload (enc, decrypted), else what the
\* OTR engine makes of it
MsgKind(enc, decrypted, outcome) ==
    IF enc THEN (IF decrypted THEN "pgp" ELSE "pgp_undecryptable") ELSE outcome

MsgKinds == {"plain", "data", "handshake", "finished", "pgp", "pgp_undecryptable"}

\* C: the counterparts that write; K: the kinds of stanza they send; cap: unread cut-off
SvEvIncomingMessage(C, K, cap) ==
    /\ Online
    /\ \E c \in C, enc \in BOOLEAN, decrypted \in BOOLEAN, trusted \in BOOLEAN :
       \E outcome \in OtrOutcomes(St, c) :
          /\ BelowMaxUnread("chat", c, cap)
          /\ enc \/ ~decrypted
          /\ (enc \/ ChatMode(c) = "pgp") => outcome = "plain"
          /\ outcome = "handshake" \/ ~trusted
          /\ MsgKind(enc, decrypted, outcome) \in K
          /\ CommitEv(sv_ev_incoming_message(St, c, enc, decrypted, outcome, trusted),
                      MkOp("sv_ev_incoming_message", c, 0, MsgKind(enc, decrypted, outcome)))

SvEvDelayedMessage(C, cap) ==
    /\ Online
    /\ \E c \in C, how \in {"sv_ev_delayed_message", "sv_ev_incoming_carbon"} :
          /\ BelowMaxUnread("chat", c, cap)
          /\ CommitEv(sv_ev_delayed_message(St, c), MkOp(how, c, 0, ""))

SvEvOutgoingCarbon(C) ==
    /\ Online
    /\ \E c \in C :
          CommitEv(sv_ev_outgoing_carbon(St, c), MkOp("sv_ev_outgoing_carbon", c, 0, ""))

SvEvSubscription(C) ==
    /\ Online
    /\ \E c \in C :
          CommitEv(sv_ev_subscription(St, c), MkOp("sv_ev_subscription", c, 0, ""))

SvEvIncomingPrivateMessage(cap) ==
    /\ Online
    /\ \E f \in PrivJids :
          /\ BelowMaxUnread("private", f, cap)
          /\ CommitEv(sv_ev_incoming_private_message(St, f),
                      MkOp("sv_ev_incoming_private_message", f, 0, ""))

\* presence and messages of a room are dispatched only while the room is in the room table
SvEvRoomMessage(cap) ==
    /\ Online
    /\ \E r \in Rooms :
          /\ muc_active(St, r)
          /\ BelowMaxUnread("muc", r, cap)
          /\ CommitEv(sv_ev_room_message(St, r), MkOp("sv_ev_room_message", r, 0, ""))

Roles == {"participant", "moderator"}
Affiliations == {"member", "owner"}

\* Q: whether the room reports that it must be configured; R, A: the roles and
\* affiliations the presence can carry; P: the values of the preferences
SvEvMucSelfPresence(Q, R, A, P) ==
    /\ Online
    /\ \E r \in Rooms, config_required \in Q, role \in R, affiliation \in A,
          occupants \in P, privileges \in P :
          /\ muc_active(St, r)
          /\ CommitEv(sv_ev_muc_self_online(St, r, config_required, role, affiliation,
                                            occupants, privileges),
                      MkOpP("sv_ev_muc_self_online", r, 0,
                            IF config_required THEN "config_required" ELSE "",
                            {q \in {"occupants"} : occupants}
                                \cup {q \in {"privileges"} : privileges}))

SvEvMucSelfOnline(Q) == SvEvMucSelfPresence(Q, {"participant"}, {"member"}, {TRUE})

Shows == {"online", "away"}
StatusesMuc == {"all", "online", "none"}

\* an occupant's presence.  R, A: the roles and affiliations it can carry;
\* P: the values of the privileges preference
SvEvMucOccupantOnline(R, A, P) ==
    /\ Online
    /\ \E r \in Rooms, nick \in Occupants, role \in R, affiliation \in A, show \in Shows,
          old_nick \in {"", "p"}, statuses \in StatusesMuc, privileges \in P :
          /\ muc_active(St, r)
          /\ old_nick # "" => (statuses = "all" /\ show = "online")
          /\ CommitEv(sv_ev_muc_occupant_online(St, r, nick, role, affiliation, show,
                                                old_nick, statuses, privileges),
                      MkOpP("sv_ev_muc_occupant_online", nick, 0,
                            IF old_nick # "" THEN "nick_change" ELSE show,
                            {statuses} \cup {q \in {"privileges"} : privileges}))

\* an occupant leaves, is kicked or is banned
SvEvRoomOccupantExit ==
    /\ Online
    /\ \E r \in Rooms, nick \in Occupants :
          /\ muc_active(St, r)
          /\ \/ \E statuses \in StatusesMuc :
                   CommitEv(sv_ev_room_occupant_offline(St, r, nick, statuses),
                            MkOpP("sv_ev_room_occupant_offline", nick, 0, "", {statuses}))
             \/ CommitEv(sv_ev_room_occupent_kicked(St, r, nick),
                         MkOp("sv_ev_room_occupent_kicked", nick, 0, ""))
             \/ CommitEv(sv_ev_room_occupent_banned(St, r, nick),
                         MkOp("sv_ev_room_occupent_banned", nick, 0, ""))

SvEvRoomHistory ==
    /\ Online
    /\ \E r \in Rooms :
          /\ muc_active(St, r)
          /\ CommitEv(sv_ev_room_history(St, r), MkOp("sv_ev_room_history", r, 0, ""))

Subjects == {"", "s"}
Broadcasts == {"b1", "b2"}

\* subject "" is a cleared subject
SvEvRoomSubject ==
    /\ Online
    /\ \E r \in Rooms, subject \in Subjects :
          /\ muc_active(St, r)
          /\ CommitEv(sv_ev_room_subject(St, r, subject),
                      MkOp("sv_ev_room_subject", r, 0, subject))

SvEvRoomBroadcast ==
    /\ Online
    /\ \E r \in Rooms, message \in Broadcasts :
          /\ muc_active(St, r)
          /\ Len(muc_pending_broadcasts(St, r)) < MaxBroadcasts
          /\ CommitEv(sv_ev_room_broadcast(St, r, message),
                      MkOp("sv_ev_room_broadcast", r, 0, message))

SvEvRoomInvite ==
    /\ Online
    /\ \E r \in InviteRooms :
          CommitEv(sv_ev_room_invite(St, r), MkOp("sv_ev_room_invite", r, 0, ""))

\* the room announces that the own nickname is changing (presence handler:
\* unavailable presence of the own nickname that carries the new nickname)
PresenceSelfNickChange ==
    /\ Online
    /\ \E r \in Rooms :
          /\ muc_active(St, r)
          /\ CommitEv(muc_nick_change_start(St, r), MkOp("muc_nick_change_start", r, 0, ""))

SvEvRoomExit ==
    /\ Online
    /\ \E r \in Rooms :
          /\ muc_active(St, r)
          /\ \/ CommitEv(sv_ev_leave_room(St, r), MkOp("sv_ev_leave_room", r, 0, ""))
             \/ CommitEv(sv_ev_room_destroy(St, r), MkOp("sv_ev_room_destroy", r, 0, ""))
             \/ CommitEv(sv_ev_room_destroyed(St, r), MkOp("sv_ev_room_destroyed", r, 0, ""))
             \/ CommitEv(sv_ev_room_kicked(St, r), MkOp("sv_ev_room_kicked", r, 0, ""))
             \/ CommitEv(sv_ev_room_banned(St, r), MkOp("sv_ev_room_banned", r, 0, ""))

\* the result of a configuration-form request
RoomConfiguration ==
    /\ Online
    /\ \E r \in Rooms :
          /\ iq_pending[r].config > 0
          /\ Commit(ui_handle_room_configuration(St, r),
                    MkOp("ui_handle_room_configuration", r, 0, ""))
          /\ iq_pending' = [iq_pending EXCEPT ![r].config = @ - 1]
          /\ UNCHANGED conn_status

\* the result of a form submission
RoomConfigSubmitResult ==
    /\ Online
    /\ \E r \in Rooms :
          /\ iq_pending[r].submit > 0
          /\ Commit(ui_handle_room_config_submit_result(St, r),
                    MkOp("ui_handle_room_config_submit_result", r, 0, ""))
          /\ iq_pending' = [iq_pending EXCEPT ![r].submit = @ - 1]
          /\ UNCHANGED conn_status

(* user commands *)

CmdWin ==
    /\ Running
    /\ \E num \in Slots :
          CommitCmd(cmd_win(St, num), MkOp("cmd_win", "", num, ""))

\* A: the forms of /close that are typed ("", "all", "read", "num"); T: the
\* values of PREF_WINS_AUTO_TIDY
CmdCloseWith(A, T) ==
    /\ Running
    /\ \E auto_tidy \in T :
          \/ \E arg \in A \ {"num"} :
                CommitCmd(cmd_close(St, arg, 0, Connected, auto_tidy),
                          MkOp("cmd_close", "", current, arg))
          \/ \E index \in Slots :
                /\ "num" \in A
                /\ CommitCmd(cmd_close(St, "num", index, Connected, auto_tidy),
                             MkOp("cmd_close", "", index, "num"))

CmdClose(A) == CmdCloseWith(A, BOOLEAN)

CmdLeave ==
    /\ Running
    /\ CommitCmd(cmd_leave(St, Connected), MkOp("cmd_leave", "", current, ""))

\* A: the forms of /wins that are typed ("tidy", "prune", "swap")
CmdWins(A) ==
    /\ Running
    /\ \/ \E sub \in A \ {"swap"} :
             CommitCmd(cmd_wins(St, sub, 0, 0), MkOp("cmd_wins", "", 0, sub))
       \/ \E a \in Slots, b \in Slots :
             /\ "swap" \in A
             /\ CommitCmd(cmd_wins(St, "swap", a, b), MkOp("cmd_wins", "", a * 100 + b, "swap"))

CmdMsg(U) ==
    /\ Running
    /\ \E usr \in U, has_msg \in BOOLEAN, trusted \in BOOLEAN :
          CommitCmd(cmd_msg(St, usr, has_msg, usr \in Nicks, trusted, Connected),
                    MkOp("cmd_msg", usr, 0, IF has_msg THEN "msg" ELSE ""))

CmdOtr(C) ==
    /\ Running
    /\ \E sub \in {"start", "end", "trust", "untrust"}, contact \in C \cup {""},
          key_loaded \in BOOLEAN, trusted \in BOOLEAN :
          /\ sub # "start" => (contact = "" /\ key_loaded /\ trusted)
          /\ CommitCmd(cmd_otr(St, sub, contact, key_loaded, trusted, Connected),
                       MkOp("cmd_otr", contact, 0, sub))

CmdPgp(C) ==
    /\ Running
    /\ \E sub \in {"start", "end"}, contact \in C \cup {""},
          valid_key \in BOOLEAN, available \in BOOLEAN :
          /\ sub # "start" => (contact = "" /\ valid_key /\ available)
          /\ CommitCmd(cmd_pgp(St, sub, contact, valid_key, available, Connected),
                       MkOp("cmd_pgp", contact, 0, sub))

\* what the read of the destroyed window's roomjid can yield: the old bytes, or
\* bytes the allocator has overwritten
FreedReads(w) == {w.key, "<freed>"}

CmdForm ==
    /\ Running
    /\ \E sub \in {"submit", "cancel", "show"}, freed_read \in FreedReads(CurWin(St)) :
          /\ (sub = "submit" /\ CurWin(St).type = "muc_config" /\ Connected)
                => iq_pending[CurWin(St).key].submit < MaxPending
          /\ CommitCmd(cmd_form(St, sub, freed_read, Connected),
                       MkOp("cmd_form", freed_read, current, sub))

CmdFormField ==
    /\ Running
    /\ CommitCmd(cmd_form_field(St), MkOp("cmd_form_field", "", current, ""))

CmdRoom ==
    /\ Running
    /\ \E sub \in {"accept", "destroy", "config"} :
          /\ (sub = "config" /\ CurWin(St).type = "muc" /\ Connected)
                => iq_pending[CurWin(St).key].config < MaxPending
          /\ CommitCmd(cmd_room(St, sub, Connected), MkOp("cmd_room", "", current, sub))

CmdJoin ==
    /\ Running
    /\ \E r \in Rooms :
          CommitCmd(cmd_join(St, r, Connected), MkOp("cmd_join", r, 0, ""))

\* a line typed without a known command
CmdExecuteDefault ==
    /\ Running
    /\ \E inp \in {"text", "/unknown"} :
          CommitCmd(cmd_execute_default(St, inp, Connected),
                    MkOp("cmd_execute_default", "", current, inp))

CmdTiny ==
    /\ Running
    /\ \E valid \in BOOLEAN, tiny \in BOOLEAN :
          CommitCmd(cmd_tiny(St, valid, tiny),
                    MkOp("cmd_tiny", "", current,
                         IF ~valid THEN "malformed" ELSE IF tiny THEN "url" ELSE "failed"))

CmdKick ==
    /\ Running
    /\ \E nick \in Occupants \cup {""} :
          CommitCmd(cmd_kick(St, nick, Connected), MkOp("cmd_kick", nick, current, ""))

CmdBan ==
    /\ Running
    /\ \E jid \in One \cup {""} :
          CommitCmd(cmd_ban(St, jid, Connected), MkOp("cmd_ban", jid, current, ""))

CmdSubject ==
    /\ Running
    /\ \E sub \in {"", "set", "clear"}, has_arg \in BOOLEAN :
          /\ sub # "set" => has_arg
          /\ CommitCmd(cmd_subject(St, sub, has_arg, Connected),
                       MkOp("cmd_subject", "", current, sub))

CmdAffiliation ==
    /\ Running
    /\ \E cmd \in {"", "list", "set"}, affiliation \in {"", "none", "owner"}, jid \in BOOLEAN :
          /\ cmd # "set" => jid
          /\ CommitCmd(cmd_affiliation(St, cmd, affiliation, jid, Connected),
                       MkOp("cmd_affiliation", affiliation, current, cmd))

CmdRole ==
    /\ Running
    /\ \E cmd \in {"", "list", "set"}, role \in {"", "none", "moderator"}, nick \in BOOLEAN :
          /\ cmd # "set" => nick
          /\ CommitCmd(cmd_role(St, cmd, role, nick, Connected),
                       MkOp("cmd_role", role, current, cmd))

CmdNick ==
    /\ Running
    /\ CommitCmd(cmd_nick(St, Connected), MkOp("cmd_nick", "", current, ""))

CmdChlog ==
    /\ Running
    /\ \E arg \in {"on", "off", ""} :
          CommitCmd(cmd_chlog(St, arg), MkOp("cmd_chlog", "", 0, arg))

CmdHistory ==
    /\ Running
    /\ \E arg \in {"on", "off", ""} :
          CommitCmd(cmd_history(St, arg), MkOp("cmd_history", "", 0, arg))

CmdDecline ==
    /\ Running
    /\ \E r \in InviteRooms :
          CommitCmd(cmd_decline(St, r), MkOp("cmd_decline", r, 0, ""))

CmdStates ==
    /\ Running
    /\ \E arg \in {"on", "off", ""} :
          CommitCmd(cmd_states(St, arg), MkOp("cmd_states", "", 0, arg))

CmdOuttype ==
    /\ Running
    /\ \E arg \in {"on", "off", ""} :
          CommitCmd(cmd_outtype(St, arg), MkOp("cmd_outtype", "", 0, arg))

CmdGone ==
    /\ Running
    /\ \E value \in GoneArgs :
          CommitCmd(cmd_gone(St, value), MkOp("cmd_gone", "", 0, value))

Resources == {"phone"}

CmdResource ==
    /\ Running
    /\ \E cmd \in {"set", "off", "title"}, resource \in Resources \cup {""},
          in_roster \in BOOLEAN, available \in BOOLEAN :
          /\ ~in_roster => ~available
          /\ cmd # "set" => (in_roster /\ available)
          /\ CommitCmd(cmd_resource(St, cmd, resource, in_roster, available),
                       MkOp("cmd_resource", resource, current,
                            IF cmd # "set" THEN cmd
                            ELSE IF available THEN "set"
                            ELSE IF in_roster THEN "set_unavailable" ELSE "set_unknown"))

\* the op records the resource the conversation was bound to when the presence arrived
SvEvContactPresence(C) ==
    /\ Online
    /\ \E c \in C, updated \in BOOLEAN, subscribed \in BOOLEAN :
          \/ CommitEv(sv_ev_contact_online(St, c, updated, subscribed),
                      MkOp("sv_ev_contact_online", c, 0, chat_session_get(St, c)))
          \/ \E resource \in Resources \cup {""} :
                CommitEv(sv_ev_contact_offline(St, c, resource, updated, subscribed),
                         MkOp("sv_ev_contact_offline", c, 0, chat_session_get(St, c)))

SvEvActivity(C) ==
    /\ Online
    /\ \E c \in C, resource \in Resources :
          CommitEv(sv_ev_activity(St, c, resource), MkOp("sv_ev_activity", c, 0, resource))

----------------------------------------------------------------------------
(* Specifications.  Each one runs the handlers of one part of the core      *)
(* against each other.                                                      *)

\* messages and focus
NextMsg ==
    \/ Login
    \/ SvEvIncomingMessage(One, {"plain", "pgp", "pgp_undecryptable"}, MaxUnread)
    \/ SvEvDelayedMessage(One, MaxUnread)
    \/ SvEvIncomingPrivateMessage(MaxUnread)
    \/ SvEvRoomMessage(MaxUnread)
    \/ CmdJoin \/ SvEvMucSelfOnline({FALSE})
    \/ CmdWin
    \/ CmdMsg(One)

SpecMsg == Init /\ [][NextMsg]_vars

\* unread cut-off where the counters are not what is looked at
MaxUnreadLow == 1

\* encryption modes of the conversations
NextEnc ==
    \/ Login
    \/ SvEvIncomingMessage(Contacts, MsgKinds, MaxUnreadLow)
    \/ CmdOtr(Contacts)
    \/ CmdPgp(Contacts)
    \/ CmdMsg(Contacts)
    \/ CmdWin
    \/ CmdClose({"", "num"})
    \/ CmdWins({"prune"})

SpecEnc == Init /\ [][NextEnc]_vars

\* the window registry under creations and closures
NextWins ==
    \/ Login
    \/ SvEvDelayedMessage(One, MaxUnreadLow)
    \/ CmdJoin \/ SvEvMucSelfOnline({FALSE}) \/ SvEvRoomExit
    \/ CmdRoom \/ RoomConfiguration \/ CmdFormField
    \/ CmdWin
    \/ CmdClose({"", "num", "all", "read"})
    \/ CmdLeave
    \/ CmdWins({"tidy", "prune", "swap"})

SpecWins == Init /\ [][NextWins]_vars

\* every event and command that resolves a conversation to its window
NextKeys ==
    \/ Login
    \/ SvEvIncomingMessage(One, {"plain", "handshake"}, MaxUnreadLow)
    \/ SvEvDelayedMessage(Contacts, MaxUnreadLow)
    \/ SvEvOutgoingCarbon(One)
    \/ SvEvSubscription(One)
    \/ SvEvIncomingPrivateMessage(MaxUnreadLow)
    \/ CmdMsg(One \cup Nicks)
    \/ CmdOtr(One)
    \/ CmdPgp(One)
    \/ CmdJoin \/ SvEvMucSelfOnline({FALSE})
    \/ CmdClose({"num"})

SpecKeys == Init /\ [][NextKeys]_vars

\* rooms and their configuration forms
NextRoom ==
    \/ Login
    \/ CmdJoin \/ SvEvMucSelfOnline(BOOLEAN) \/ SvEvRoomExit
    \/ CmdRoom \/ RoomConfiguration
    \/ CmdFormField \/ CmdForm \/ RoomConfigSubmitResult
    \/ CmdWin
    \/ CmdLeave

SpecRoom == Init /\ [][NextRoom]_vars

\* what a room sends while it is being joined, and the completion of the join
NextJoin ==
    \/ Login
    \/ CmdJoin
    \/ SvEvRoomSubject
    \/ SvEvRoomBroadcast
    \/ SvEvMucSelfPresence(BOOLEAN, {"participant"}, {"member"}, BOOLEAN)
    \/ SvEvRoomExit
    \/ CmdWin

SpecJoin == Init /\ [][NextJoin]_vars

----------------------------------------------------------------------------
(* Properties *)

UnreadOf(W, t, k) ==
    IF wins_lookup(W, t, k) = 0 THEN 0
    ELSE win_unread(wins_get_by_num(W, wins_lookup(W, t, k)))

IsOpen(W, t, k) == wins_lookup(W, t, k) # 0

IsCurrentWin(W, cur, t, k) == IsOpen(W, t, k) /\ wins_lookup(W, t, k) = cur

ChatMsgOps == {"sv_ev_incoming_message", "sv_ev_delayed_message", "sv_ev_incoming_carbon"}

\* the window kind an inbound message handler resolves
MsgTarget(o) ==
    CASE o.name \in ChatMsgOps -> "chat"
      [] o.name = "sv_ev_incoming_private_message" -> "private"
      [] o.name = "sv_ev_room_message" -> "muc"
      [] OTHER -> ""

\* the step is an inbound message that reaches ui_incoming_msg,
\* ui_incoming_private_msg or ui_room_message with a window to show it in
ShownInbound ==
    /\ MsgTarget(op') # ""
    /\ ~crashed'
    /\ op'.flag \notin {"handshake", "finished"}
    /\ ~(op'.flag \in {"pgp", "pgp_undecryptable"} /\ ChatMode(op'.key) = "otr")
    /\ MsgTarget(op') = "muc" => IsOpen(windows, "muc", op'.key)

\* C1: an inbound chat, private or room message leaves the unread counter of a
\* target window that is current unchanged and adds exactly one to the unread
\* counter of a target window that is not current.
C1_UnreadOnInbound ==
    [][ShownInbound =>
          LET t == MsgTarget(op')
              k == op'.key
          IN  UnreadOf(windows', t, k) =
                 IF IsCurrentWin(windows, current, t, k)
                 THEN UnreadOf(windows, t, k)
                 ELSE UnreadOf(windows, t, k) + 1]_vars

C1_Witness ==
    /\ op.name = "sv_ev_room_message"
    /\ UnreadOf(windows, "muc", "r@conf") = 2
    /\ UnreadOf(windows, "chat", "a@x") = 1
    /\ IsCurrentWin(windows, current, "private", "r@conf/n")

\* C2: an unfocused chat window that has been sent three messages since it was
\* opened or last focused has unread counter 3, and its unread counter is 0
\* once it has been made the current window.
C2_ThreeThenFocus ==
    [][\A c \in Contacts :
          (/\ IsOpen(windows, "chat", c)
           /\ ~IsCurrentWin(windows, current, "chat", c)
           /\ received[c] = 3)
          => /\ UnreadOf(windows, "chat", c) = 3
             /\ IsCurrentWin(windows', current', "chat", c)
                   => UnreadOf(windows', "chat", c) = 0]_vars

C2_Witness ==
    /\ op.name \in ChatMsgOps
    /\ op.key = "a@x"
    /\ ~IsCurrentWin(windows, current, "chat", "a@x")
    /\ received["a@x"] = 3
    /\ UnreadOf(windows, "chat", "a@x") = 3

----------------------------------------------------------------------------
(* Encryption modes *)

EncOf(W, c) ==
    IF wins_get_chat(W, c) = 0 THEN "none"
    ELSE wins_get_by_num(W, wins_get_chat(W, c)).enc_mode

TrustOf(W, c) ==
    IF wins_get_chat(W, c) = 0 THEN FALSE
    ELSE wins_get_by_num(W, wins_get_chat(W, c)).otr_is_trusted

Printed(o, what) == \E i \in 1..Len(o) : o[i][1] = "print" /\ o[i][2] = what

\* the chat window of c is the same window before and after the step
SameChat(c) == IsOpen(windows, "chat", c) /\ IsOpen(windows', "chat", c)

\* C3: no step takes the chat window of a conversation from PGP mode to OTR
\* mode: every path that sets OTR mode (/otr start, /msg without a message on a
\* secure session, handshake completion) leaves a window in PGP mode in PGP mode.
C3_NoOtrWhilePgp ==
    [][\A c \in Contacts :
          (SameChat(c) /\ EncOf(windows, c) = "pgp") => EncOf(windows', c) # "otr"]_vars

\* C4: a chat window in OTR mode is never in PGP mode after the next step;
\* /pgp start on a window in OTR mode prints the refusal and leaves enc_mode and
\* the trust flag as they were, and an inbound PGP payload received in OTR mode
\* leaves the mode as it was.
C4_NoPgpWhileOtr ==
    [][\A c \in Contacts :
          (SameChat(c) /\ EncOf(windows, c) = "otr") =>
             /\ EncOf(windows', c) # "pgp"
             /\ (/\ op'.name = "cmd_pgp" /\ op'.flag = "start" /\ Connected
                 /\ \/ op'.key = c
                    \/ op'.key = "" /\ IsCurrentWin(windows, current, "chat", c))
                => /\ Printed(out', "You must end the OTR session to start PGP encryption.")
                   /\ EncOf(windows', c) = "otr"
                   /\ TrustOf(windows', c) = TrustOf(windows, c)
             /\ (/\ op'.name = "sv_ev_incoming_message" /\ op'.key = c
                 /\ op'.flag \in {"pgp", "pgp_undecryptable"})
                => /\ EncOf(windows', c) = "otr"
                   /\ TrustOf(windows', c) = TrustOf(windows, c)]_vars

C4_Witness ==
    /\ op.name = "cmd_pgp" /\ op.flag = "start" /\ op.key = "a@x"
    /\ EncOf(windows, "a@x") = "otr"
    /\ TrustOf(windows, "a@x")
    /\ Printed(out, "You must end the OTR session to start PGP encryption.")

\* the step is an explicit start or end of a session, a handshake completion or
\* a teardown by the counterpart
ExplicitModeAction(o) ==
    \/ o.name = "cmd_otr" /\ o.flag \in {"start", "end"}
    \/ o.name = "cmd_pgp" /\ o.flag \in {"start", "end"}
    \/ o.name = "sv_ev_incoming_message" /\ o.flag \in {"handshake", "finished"}

ModeChanges(o) ==
    CASE o.name = "cmd_otr" /\ o.flag = "start" -> {<<"none", "otr">>}
      [] o.name = "cmd_otr" /\ o.flag = "end" -> {<<"otr", "none">>}
      [] o.name = "cmd_pgp" /\ o.flag = "start" -> {<<"none", "pgp">>}
      [] o.name = "cmd_pgp" /\ o.flag = "end" -> {<<"pgp", "none">>}
      [] o.name = "cmd_msg" /\ o.flag = "" -> {<<"none", "otr">>, <<"pgp", "otr">>}
      [] o.name = "sv_ev_incoming_message" ->
            CASE o.flag = "handshake" -> {<<"none", "otr">>}
              [] o.flag = "finished" -> {<<"otr", "none">>}
              [] o.flag = "pgp" -> {<<"none", "pgp">>}
              [] o.flag \in {"pgp_undecryptable", "plain"} -> {<<"pgp", "none">>}
              [] OTHER -> {}
      [] OTHER -> {}

----------------------------------------------------------------------------
(* The window registry *)

\* C6: no two open windows share a slot number, and the console window is open
\* in slot 1.
C6_SlotsUniqueConsoleFirst ==
    /\ \A v \in windows, w \in windows : v.num = w.num => v = w
    /\ \E w \in windows : w.num = 1 /\ w.type = "console"
    /\ \A w \in windows : w.type = "console" => w.num = 1

C6_Witness ==
    /\ op.name = "cmd_wins" /\ op.flag = "swap"
    /\ Printed(out, "Swapped windows")
    /\ wins_get_nums(windows) = {1, 3, 4}
    /\ \E w \in windows : w.type = "muc_config"

WinsOf(W, t, k) == {w \in W : w.type = t /\ w.key = k}

\* C7: at most one chat window per bare address, one private window per full
\* address and one room window per room; a step that targets a conversation
\* whose window is open leaves that window in its slot.
C7_OneWindowPerKey ==
    /\ \A c \in Contacts : Cardinality(WinsOf(windows, "chat", c)) <= 1
    /\ \A f \in PrivJids : Cardinality(WinsOf(windows, "private", f)) <= 1
    /\ \A r \in Rooms : Cardinality(WinsOf(windows, "muc", r)) <= 1

\* a message for a@x is shown in the window of a@x in slot 3 while slot 2 is
\* free: the open window was used, a new one would have taken slot 2
C7_Witness ==
    /\ op.name = "sv_ev_delayed_message" /\ op.key = "a@x"
    /\ wins_get_chat(windows, "a@x") = 3
    /\ 2 \notin wins_get_nums(windows)
    /\ IsOpen(windows, "muc", "r@conf")

ModifiedForms(W) == {w \in W : w.type = "muc_config" /\ w.modified}

UnsavedLine == "You have unsaved changes, use /form submit or /form cancel"

\* C8: /close <n> and /close without argument on a RoomConfig window whose form
\* is modified print the unsaved-changes line and leave every window as it
\* was; /close all and /close read leave every such window open and unchanged
\* and report as closed exactly the windows that are gone.
C8_UnsavedFormKept ==
    [][op'.name = "cmd_close" =>
          /\ (/\ op'.flag \in {"", "num"}
              /\ \E w \in ModifiedForms(windows) : w.num = op'.num)
             => /\ windows' = windows
                /\ current' = current
                /\ Printed(out', UnsavedLine)
          /\ op'.flag \in {"all", "read"}
             => /\ ModifiedForms(windows) \subseteq windows'
                /\ windows' \subseteq windows
                /\ Printed(out', ClosedLine(Cardinality(windows \ windows')))]_vars

C8_Witness ==
    /\ op.name = "cmd_close" /\ op.flag = "num"
    /\ \E w \in ModifiedForms(windows) : w.num = op.num /\ w.num # current
    /\ Printed(out, UnsavedLine)

----------------------------------------------------------------------------
(* Rooms and configuration forms *)

SendsOf(o) == {i \in 1..Len(o) : o[i][1] = "send"}

\* C9: /form submit and /form cancel in a RoomConfig window send one protocol
\* action (the submission, respectively the cancellation, for the form's
\* room), close the RoomConfig window whether or not its form is modified, and
\* make the room window of that room current if it is open, else the console.
C9_FormSubmitCancel ==
    [][(/\ op'.name = "cmd_form" /\ op'.flag \in {"submit", "cancel"}
        /\ Connected
        /\ wins_get_by_num(windows, current).type = "muc_config")
       => LET w == wins_get_by_num(windows, current)
              action == IF op'.flag = "submit" THEN "iq_submit_room_config"
                        ELSE "iq_room_config_cancel"
          IN  /\ Cardinality(SendsOf(out')) = 1
              /\ CountOut(out', <<"send", action, "", w.key>>) = 1
              /\ windows' = windows \ {w}
              /\ current' = IF IsOpen(windows, "muc", w.key)
                            THEN wins_get_muc(windows, w.key) ELSE 1]_vars

LockedLine == "Room locked, requires configuration."

\* the step completes the join of room r
JoinCompletes(r) ==
    /\ op'.name = "sv_ev_muc_self_online" /\ op'.key = r
    /\ ~muc_nick_change_pending(St, r)
    /\ ~muc_roster_complete(St, r)
    /\ ~crashed'

\* C10: the step that completes the join of a room with config_required shows
\* the 'requires configuration' block in the room window once and records the
\* requirement on the room, and no other step shows the block; /room accept in
\* the window of a room that requires configuration sends one instant-room
\* confirmation, clears the requirement and leaves every window as it was.
C10_RequiresConfig ==
    [][\A r \in Rooms :
          /\ CountOut(out', <<"print", LockedLine, "muc", r>>) =
                IF JoinCompletes(r) /\ op'.flag = "config_required" THEN 1 ELSE 0
          /\ (JoinCompletes(r) /\ op'.flag = "config_required")
                => /\ muc_requires_config([muc |-> muc'], r)
                   /\ IsOpen(windows', "muc", r)
          /\ (/\ op'.name = "cmd_room" /\ op'.flag = "accept" /\ Connected
              /\ IsCurrentWin(windows, current, "muc", r)
              /\ muc_requires_config(St, r))
                => /\ CountOut(out', <<"send", "iq_confirm_instant_room", "", r>>) = 1
                   /\ ~muc_requires_config([muc |-> muc'], r)
                   /\ windows' = windows
                   /\ current' = current]_vars

C10_Witness ==
    /\ op.name = "cmd_room" /\ op.flag = "accept"
    /\ Printed(out, "Room unlocked.")
    /\ IsCurrentWin(windows, current, "muc", "r@conf")
    /\ muc_active(St, "r@conf")
    /\ ~muc_requires_config(St, "r@conf")

----------------------------------------------------------------------------
(* Join completion *)

\* the lines of o printed in the window of room r, the occupant list aside
RoomLines(o, r) ==
    LET InRoom(e) == e[1] = "print" /\ e[3] = "muc" /\ e[4] = r /\ e[2] # "occupants"
        L == SelectSeq(o, InRoom)
    IN  [i \in 1..Len(L) |-> L[i][2]]

\* what the completion of the join of r has to show, in order
JoinFlush(r, config_required) ==
    <<"You have joined the room">>
    \o (IF muc[r].subject # "" THEN <<"Room subject: " \o muc[r].subject>> ELSE <<>>)
    \o [i \in 1..Len(muc[r].pending_broadcasts) |->
            "Room message: " \o muc[r].pending_broadcasts[i]]
    \o (IF config_required THEN <<LockedLine>> ELSE <<>>)

\* C11: the step that completes the join of a room marks its roster complete
\* and shows in the room window, in this order, the join line, the stored
\* subject if there is one, the queued broadcasts in their order of arrival and
\* the requires-configuration line if configuration is required; before that
\* step a subject is stored and a broadcast is queued behind the earlier ones,
\* and neither is shown.
C11_JoinFlushOrder ==
    [][\A r \in Rooms :
          /\ JoinCompletes(r)
                => /\ muc_roster_complete([muc |-> muc'], r)
                   /\ RoomLines(out', r) = JoinFlush(r, op'.flag = "config_required")
          /\ (op'.key = r /\ ~muc_roster_complete(St, r) /\ muc_active(St, r))
                => /\ op'.name = "sv_ev_room_subject"
                      => out' = <<>> /\ muc'[r].subject = op'.flag
                   /\ op'.name = "sv_ev_room_broadcast"
                      => /\ out' = <<>>
                         /\ muc'[r].pending_broadcasts =
                               Append(muc[r].pending_broadcasts, op'.flag)]_vars

C11_Witness ==
    /\ op.name = "sv_ev_muc_self_online" /\ op.flag = "config_required"
    /\ RoomLines(out, "r@conf") =
          <<"You have joined the room", "Room subject: s", "Room message: b2",
            "Room message: b1", LockedLine>>

\* commands with and without a connection
NextCmds ==
    \/ Login \/ Disconnect
    \/ CmdJoin \/ SvEvMucSelfOnline({FALSE}) \/ RoomConfiguration
    \/ CmdWin \/ CmdMsg(One) \/ CmdOtr(One)
    \/ CmdExecuteDefault \/ CmdTiny
    \/ CmdKick \/ CmdBan \/ CmdSubject \/ CmdAffiliation \/ CmdRole \/ CmdNick
    \/ CmdRoom \/ CmdForm \/ CmdLeave

SpecCmds == Init /\ [][NextCmds]_vars

\* resource pinning and encrypted sessions
NextRes ==
    \/ Login
    \/ SvEvIncomingMessage(One, {"plain", "handshake", "finished"}, MaxUnreadLow)
    \/ CmdMsg(One) \/ CmdOtr(One) \/ CmdPgp(One)
    \/ CmdWin \/ CmdResource

SpecRes == Init /\ [][NextRes]_vars

\* every way a window is closed
NextClose ==
    \/ Login \/ Disconnect
    \/ CmdMsg(One)
    \/ CmdJoin \/ SvEvMucSelfOnline({FALSE}) \/ SvEvRoomExit
    \/ CmdRoom \/ RoomConfiguration \/ CmdForm \/ RoomConfigSubmitResult
    \/ CmdWin \/ CmdLeave
    \/ CmdClose({"", "num", "all", "read"})
    \/ CmdWins({"tidy", "prune", "swap"})

SpecClose == Init /\ [][NextClose]_vars

\* roles and affiliations in a joined room
NextPriv ==
    \/ Login \/ CmdJoin
    \/ SvEvMucSelfPresence({FALSE}, Roles, Affiliations, BOOLEAN)
    \/ SvEvMucOccupantOnline(Roles, Affiliations, BOOLEAN)
    \/ SvEvRoomOccupantExit
    \/ SvEvRoomExit
    \/ CmdWin \/ CmdLeave

SpecPriv == Init /\ [][NextPriv]_vars

\* room events with and without a window for the room
NextDrop ==
    \/ Login \/ Disconnect
    \/ CmdJoin \/ CmdClose({"num"})
    \/ SvEvMucSelfPresence({FALSE}, Roles, {"member"}, BOOLEAN)
    \/ SvEvMucOccupantOnline(Roles, {"member"}, BOOLEAN)
    \/ SvEvRoomOccupantExit
    \/ SvEvRoomMessage(MaxUnreadLow) \/ SvEvRoomHistory
    \/ SvEvRoomSubject \/ SvEvRoomBroadcast

SpecDrop == Init /\ [][NextDrop]_vars

\* chat history in new and old chat windows
NextHist ==
    \/ Login
    \/ CmdChlog \/ CmdHistory
    \/ SvEvIncomingMessage(One, {"plain", "pgp", "handshake"}, MaxUnread)
    \/ SvEvDelayedMessage(One, MaxUnread)
    \/ CmdMsg(One) \/ CmdWin \/ CmdClose({"num"})

SpecHist == Init /\ [][NextHist]_vars

----------------------------------------------------------------------------
(* Focus *)

\* the registered form fields a current window w calls for
FieldsOf(w) == IF w.type = "muc_config" THEN {w.key} ELSE {}

\* C12: in every state and for every open window W, making W current and then
\* making W current again gives the state that making W current once gives;
\* in it W is the current window and the registered form fields are those of W
\* if W is a RoomConfig window and none otherwise.
C12_FocusIdempotent ==
    \A w \in windows :
        LET once == ui_switch_win(St, w.num)
        IN  /\ ui_switch_win(once, w.num) = once
            /\ once.current = w.num
            /\ once.form_ac = FieldsOf(w)

\* the RoomConfig window of a room has been made current while it was current
C12_Witness ==
    /\ op.name = "cmd_win"
    /\ op.num = current
    /\ wins_get_by_num(windows, current).type = "muc_config"
    /\ form_ac = {"r@conf"}
    /\ IsOpen(windows, "muc", "r@conf")

----------------------------------------------------------------------------
(* Command preconditions *)

\* what the user types: commands and plain lines
UserInput ==
    {"cmd_msg", "cmd_tiny", "cmd_join", "cmd_kick", "cmd_ban", "cmd_subject",
     "cmd_affiliation", "cmd_role", "cmd_nick", "cmd_room", "cmd_form", "cmd_otr",
     "cmd_leave", "cmd_win", "cmd_execute_default"}

\* the commands that can send
SendingInput == UserInput \ {"cmd_win"}

\* C13: a command or plain line typed while the connection state is not
\* Connected sends nothing, and a command that can send is answered with a
\* message.
C13_NoSendUnlessConnected ==
    [][(op'.name \in UserInput /\ ~Connected)
       => /\ SendsOf(out') = {}
          /\ op'.name \in SendingInput \ {"cmd_leave"} => Len(out') >= 1]_vars

\* the commands that apply in a Room window only
RoomOnly ==
    {"cmd_kick", "cmd_ban", "cmd_subject", "cmd_affiliation", "cmd_role", "cmd_room",
     "cmd_nick", "cmd_leave"}

\* the step runs a command in a window of a kind it does not apply to
Misapplied ==
    \/ op'.name \in RoomOnly /\ wins_get_by_num(windows, current).type # "muc"
    \/ op'.name = "cmd_form" /\ wins_get_by_num(windows, current).type # "muc_config"

\* C14: a room-only command typed in a window that is not a Room window, and
\* /form typed in a window that is not a RoomConfig window, prints a message
\* and nothing else: it sends nothing, closes no window, and leaves the
\* windows, the current window, the rooms and the sessions as they were.
C14_MisappliedRejected ==
    [][Misapplied
       => /\ Len(out') >= 1
          /\ \A i \in 1..Len(out') : out'[i][1] = "print"
          /\ UNCHANGED <<windows, current, muc, otr_secure, form_ac, iq_pending, crashed>>]_vars

\* /leave has been typed in a Chat window while connected and the window is
\* still open and current
C14_Witness ==
    /\ op.name = "cmd_leave"
    /\ Connected
    /\ wins_get_by_num(windows, current).type = "chat"
    /\ out = << <<"print", "You can only use the /leave command in a chat room.", "console", "">> >>

\* C15: /resource set with a resource, typed in a Chat window whose session is
\* encrypted (OTR secure, or PGP switched on), prints a message and leaves the
\* window's resource override, its chat state and the chat session alone.
C15_NoResourceWhileEncrypted ==
    [][(LET w == wins_get_by_num(windows, current)
        IN  /\ op'.name = "cmd_resource"
            /\ op'.flag \in {"set", "set_unavailable", "set_unknown"}
            /\ op'.key # ""
            /\ w.type = "chat"
            /\ (w.key \in otr_secure \/ w.enc_mode = "pgp"))
       => /\ Len(out') >= 1
          /\ \A i \in 1..Len(out') : out'[i][1] = "print"
          /\ windows' = windows]_vars

\* the step takes the current window out of the registry
ClosesCurrent ==
    LET w == wins_get_by_num(windows, current)
    IN  /\ current # 1
        /\ ~\E v \in windows' : v.num = w.num /\ v.type = w.type /\ v.key = w.key

\* the operations that focus a window after closing one
FocusingClosers == {"cmd_form", "ui_handle_room_config_submit_result"}

----------------------------------------------------------------------------
(* Room privileges *)

\* the lines a change from the privileges old to the privileges new calls for
\* in the window of room r; who is "Your" or the occupant's nick with "'s"
PrivilegeLines(r, who, have, has, old, new) ==
    IF old.role # new.role /\ old.affiliation # new.affiliation
    THEN << <<"print", who \o " role and affiliation " \o have \o " been changed, role: "
                        \o new.role \o ", affiliation: " \o new.affiliation, "muc", r>> >>
    ELSE IF old.role # new.role
    THEN << <<"print", who \o " role " \o has \o " been changed to: " \o new.role, "muc", r>> >>
    ELSE IF old.affiliation # new.affiliation
    THEN << <<"print", who \o " affiliation " \o has \o " been changed to: " \o new.affiliation,
              "muc", r>> >>
    ELSE <<>>

\* the step is a presence of an occupant of the joined room r that leaves the
\* occupant's presence as it was
OccupantPrivilegeStep(r) ==
    /\ op'.name = "sv_ev_muc_occupant_online"
    /\ muc[r].active /\ muc[r].roster_complete
    /\ op'.key \in DOMAIN muc[r].roster
    /\ op'.flag = muc[r].roster[op'.key].show

\* the step is a presence of the user in the joined room r
SelfPrivilegeStep(r) ==
    /\ op'.name = "sv_ev_muc_self_online" /\ op'.key = r
    /\ muc[r].active /\ muc[r].roster_complete /\ ~muc[r].nick_change_pending

\* C17: with the privileges preference on, a presence that leaves an
\* occupant's presence unchanged renders exactly the combined line when role
\* and affiliation both differ from the stored ones, the role line or the
\* affiliation line when one differs, and nothing when neither does; a
\* presence of the user in a joined room does the same for the own role and
\* affiliation.
C17_PrivilegeLines ==
    [][\A r \in Rooms :
          /\ (OccupantPrivilegeStep(r) /\ "privileges" \in op'.prefs)
                => out' = PrivilegeLines(r, op'.key \o "'s", "have", "has",
                                         muc[r].roster[op'.key], muc'[r].roster[op'.key])
          /\ (SelfPrivilegeStep(r) /\ "privileges" \in op'.prefs)
                => out' = PrivilegeLines(r, "Your", "have", "has", muc[r], muc'[r])]_vars

\* an occupant's presence has changed both role and affiliation and the
\* combined line, and only it, has been rendered
C17_Witness ==
    /\ op.name = "sv_ev_muc_occupant_online"
    /\ "privileges" \in op.prefs
    /\ out = << <<"print", "o's role and affiliation have been changed, role: moderator, affiliation: owner",
                  "muc", "r@conf">> >>

\* the inbound events of a room, the completion of a join apart
RoomEvents ==
    {"sv_ev_room_message", "sv_ev_room_history", "sv_ev_room_subject", "sv_ev_room_broadcast",
     "sv_ev_muc_occupant_online", "sv_ev_room_occupant_offline", "sv_ev_room_occupent_kicked",
     "sv_ev_room_occupent_banned", "sv_ev_muc_self_online"}

\* the step handles an event of room r, which has no window
EventWithoutWindow(r) ==
    /\ op'.name \in RoomEvents
    /\ muc[r].active
    /\ ~IsOpen(windows, "muc", r)
    /\ op'.name = "sv_ev_muc_self_online" => muc[r].roster_complete

\* C18: an inbound event of a room that has no Room window creates no
\* window, prints nothing, changes no window and does not crash.
C18_EventWithoutWindowDropped ==
    [][\A r \in Rooms :
          EventWithoutWindow(r)
             => /\ windows' = windows
                /\ current' = current
                /\ out' = <<>>
                /\ ~crashed']_vars

----------------------------------------------------------------------------
(* Chat history *)

HistoryLine(c) == <<"print", "chat_history", "chat", c>>
MessageLine(c) == <<"print", "incoming_message", "chat", c>>

\* the chat window of c is open and has rendered its history
HistoryShown(W, c) == \E w \in W : w.type = "chat" /\ w.key = c /\ w.history_shown

\* C19: an inbound chat message from a counterpart without a Chat window
\* opens one (a slot being free); with chat logging and history both on, the
\* history is rendered in it before the message; and a window renders its
\* history at most once while it is open.
C19_HistoryBeforeMessageOnce ==
    [][\A c \in Contacts :
          /\ (/\ op'.name = "sv_ev_incoming_message" /\ op'.key = c
              /\ ~IsOpen(windows, "chat", c)
              /\ get_next_available_win_num(windows) # 0)
                => /\ IsOpen(windows', "chat", c)
                   /\ \A j \in 1..Len(out') :
                         (out'[j] = MessageLine(c) /\ {"chlog", "history"} \subseteq prefs)
                            => \E i \in 1..(j - 1) : out'[i] = HistoryLine(c)
          /\ CountOut(out', HistoryLine(c)) <= 1
          /\ CountOut(out', HistoryLine(c)) = 1
                => /\ ~HistoryShown(windows, c)
                   /\ HistoryShown(windows', c) \/ ~IsOpen(windows', "chat", c)
          /\ (HistoryShown(windows, c) /\ wins_get_chat(windows', c) = wins_get_chat(windows, c)
                 /\ ~(op'.name = "cmd_close" /\ op'.num = wins_get_chat(windows, c)))
                => HistoryShown(windows', c)]_vars

\* with logging and history on, a message from a@x has opened the Chat window
\* of a@x, and the history and then the message have been rendered in it
C19_Witness ==
    /\ op.name = "sv_ev_incoming_message" /\ op.key = "a@x"
    /\ {"chlog", "history"} \subseteq prefs
    /\ received["a@x"] = 1
    /\ \E i, j \in 1..Len(out) :
          i < j /\ out[i] = HistoryLine("a@x") /\ out[j] = MessageLine("a@x")

----------------------------------------------------------------------------
(* Swapping *)

\* the step is /wins swap a b with a and b distinct slots other than the
\* console's, a holding a window and b empty
SwapIntoEmpty(a, b) ==
    /\ op'.name = "cmd_wins" /\ op'.flag = "swap" /\ op'.num = a * 100 + b
    /\ a # b /\ a # 1 /\ b # 1
    /\ wins_exists(windows, a) /\ ~wins_exists(windows, b)

----------------------------------------------------------------------------
(* Compaction of the registry: /wins tidy and /wins prune *)

\* the registry under creations, closures by number and compaction
NextTidy ==
    \/ Login \/ Disconnect
    \/ SvEvDelayedMessage(Contacts, MaxUnreadLow)
    \/ CmdJoin \/ SvEvMucSelfOnline({FALSE})
    \/ CmdWin
    \/ CmdClose({"num"})
    \/ CmdWins({"tidy", "prune"})

SpecTidy == Init /\ [][NextTidy]_vars

TidyOnce == cmd_wins(St, "tidy", 0, 0)
TidyTwice == cmd_wins([TidyOnce EXCEPT !.out = <<>>], "tidy", 0, 0)

\* the window of W that window w of the registry has become
Moved(W, w) == {x \in W : [x EXCEPT !.num = w.num] = w}

\* C21: in every registry state, one /wins tidy leaves the open windows in
\* slots 1..k without gaps, each window unchanged but for its slot and in the
\* order they had; a second /wins tidy right after it changes no slot
\* and reports "No tidy needed.".
C21_TidyIdempotent ==
    /\ wins_get_nums(TidyOnce.windows) = 1..Cardinality(windows)
    /\ Cardinality(TidyOnce.windows) = Cardinality(windows)
    /\ \A w \in windows : Cardinality(Moved(TidyOnce.windows, w)) = 1
    /\ \A a \in windows, b \in windows :
          a.num < b.num =>
             \A x \in Moved(TidyOnce.windows, a), y \in Moved(TidyOnce.windows, b) : x.num < y.num
    /\ TidyTwice.windows = TidyOnce.windows
    /\ TidyTwice.current = TidyOnce.current
    /\ TidyTwice.out = <<<<"print", "No tidy needed.", "console", "">>>>

\* /wins tidy has just closed two gaps
C21_Witness ==
    /\ op.name = "cmd_wins" /\ op.flag = "tidy"
    /\ Printed(out, "Windows tidied.")
    /\ Cardinality(windows) = 2
    /\ \E w \in windows : w.type = "muc" /\ w.num = 2

\* C22: /wins prune closes neither the console nor the window that is current
\* when it is typed, and every window it closes had an unread counter of zero.
C22_PruneSpares ==
    [][(op'.name = "cmd_wins" /\ op'.flag = "prune") =>
          /\ Console \in windows'
          /\ IsOpen(windows', CurWin(St).type, CurWin(St).key)
          /\ \A w \in windows : ~IsOpen(windows', w.type, w.key) => w.unread = 0]_vars

\* /wins prune has closed a window and left the current chat window in its slot
C22_Witness ==
    /\ op.name = "cmd_wins" /\ op.flag = "prune"
    /\ Printed(out, "Windows pruned.")
    /\ current # 1 /\ CurWin(St).type = "chat" /\ CurWin(St).unread = 0

----------------------------------------------------------------------------
(* A full registry *)

\* every slot gets used: a room, a private conversation and two contacts
NextFull ==
    \/ Login
    \/ SvEvIncomingMessage(Contacts, {"plain"}, MaxUnreadLow)
    \/ SvEvDelayedMessage(Contacts, MaxUnreadLow)
    \/ SvEvSubscription(Contacts)
    \/ CmdMsg(Contacts)
    \/ CmdJoin \/ SvEvMucSelfOnline({FALSE})
    \/ SvEvIncomingPrivateMessage(MaxUnreadLow)
    \/ CmdWin
    \/ CmdClose({"num"})

SpecFull == Init /\ [][NextFull]_vars

\* the operations that open the chat window of o.key when there is none
NeedsNewWindow(o) ==
    /\ o.name \in ChatMsgOps \cup {"sv_ev_subscription", "cmd_msg"}
    /\ o.key \in Contacts
    /\ ~IsOpen(windows, "chat", o.key)
    /\ o.name = "cmd_msg" => (Connected /\ CurWin(St).type # "muc")

\* C23: with every slot in use, an operation that needs a new chat window
\* creates none, changes no window, slot or focus, reports to the user and
\* does not crash.
C23_CapacityReported ==
    [][(NeedsNewWindow(op') /\ get_next_available_win_num(windows) = 0) =>
          /\ ~crashed'
          /\ windows' = windows /\ current' = current
          /\ \E i \in 1..Len(out') : out'[i][1] = "print"]_vars

----------------------------------------------------------------------------
(* Chat sessions *)

\* a conversation that is bound to a resource, pinned, unbound by presence and
\* by closing its window
NextSess ==
    \/ Login \/ Disconnect
    \/ SvEvIncomingMessage(One, {"plain"}, MaxUnreadLow)
    \/ SvEvActivity(One)
    \/ SvEvContactPresence(One)
    \/ CmdMsg(One)
    \/ CmdResource
    \/ CmdWin
    \/ CmdClose({"num"})
    \/ CmdWins({"prune"})

SpecSess == Init /\ [][NextSess]_vars

PresenceOps == {"sv_ev_contact_online", "sv_ev_contact_offline"}

ChatSends == {"message_send_chat", "message_send_chat_otr", "message_send_chat_pgp"}

----------------------------------------------------------------------------
(* Trust flag and OTR sessions *)

\* C25: in every reachable state a chat window whose OTR trust flag is set is
\* in OTR mode.
C25_TrustedIsOtr ==
    \A w \in windows : (w.type = "chat" /\ w.otr_is_trusted) => w.enc_mode = "otr"

\* a PGP message has arrived in a trusted OTR session
C25_Witness ==
    /\ op.name = "sv_ev_incoming_message" /\ op.flag \in {"pgp", "pgp_undecryptable"}
    /\ TrustOf(windows, op.key) /\ EncOf(windows, op.key) = "otr"

\* OTR sessions and every way of closing a chat window
NextOtrClose ==
    \/ Login \/ Disconnect
    \/ SvEvIncomingMessage(One, {"plain", "handshake", "finished"}, MaxUnreadLow)
    \/ CmdOtr(One)
    \/ CmdMsg(One)
    \/ CmdWin
    \/ CmdClose({"", "num", "all", "read"})
    \/ CmdWins({"prune"})

SpecOtrClose == Init /\ [][NextOtrClose]_vars

\* the step closes the chat window of c by /close or /wins prune
ClosesChat(c) ==
    /\ op'.name = "cmd_close" \/ (op'.name = "cmd_wins" /\ op'.flag = "prune")
    /\ IsOpen(windows, "chat", c) /\ ~IsOpen(windows', "chat", c)

\* C26: when a chat window in OTR mode is closed while connected, by /close
\* <n>, /close all, /close read or /wins prune, the OTR engine holds no
\* secure session with that counterpart afterwards.
C26_ClosingEndsOtr ==
    [][\A c \in Contacts :
          (Connected /\ ClosesChat(c) /\ EncOf(windows, c) = "otr") => c \notin otr_secure']_vars

----------------------------------------------------------------------------
(* The current-window indicator of the status bar and the title bar *)

\* focus changes and closures of windows that are and are not current
NextBar ==
    \/ Login \/ Disconnect
    \/ SvEvDelayedMessage(One, MaxUnreadLow)
    \/ CmdMsg(One)
    \/ CmdJoin \/ SvEvMucSelfOnline({FALSE}) \/ SvEvRoomExit
    \/ CmdWin
    \/ CmdClose({"", "num", "all"})
    \/ CmdLeave

SpecBar == Init /\ [][NextBar]_vars

\* the slot a bar shows after a step, when it showed slot prev before it
Shown(b, prev) == IF b = 0 THEN prev ELSE b

\* C27: if the status bar and the title bar designate the current window
\* before an operation, they designate the current window after it: a bar the
\* operation does not touch keeps showing the slot it showed.
C27_IndicatorOnCurrent ==
    [][/\ Shown(bar'.status_bar, current) = current'
       /\ Shown(bar'.title_bar, current) = current']_vars

----------------------------------------------------------------------------
(* Joined rooms and their windows across a reconnect *)

\* join, disconnect, close or leave, reconnect, join again
NextRejoin ==
    \/ Login \/ Disconnect
    \/ CmdJoin \/ SvEvMucSelfOnline({FALSE})
    \/ SvEvRoomMessage(MaxUnreadLow)
    \/ CmdWin
    \/ CmdClose({"", "num"})
    \/ CmdLeave

SpecRejoin == Init /\ [][NextRejoin]_vars

\* C28: in every reachable state a room that is active with a complete roster
\* has an open Room window, and /join never fails the assertion of
\* ui_switch_win on a missing window.
C28_JoinedRoomHasWindow ==
    /\ \A r \in Rooms : muc_roster_complete(St, r) => IsOpen(windows, "muc", r)
    /\ ~(crashed /\ op.name = "cmd_join")

----------------------------------------------------------------------------
(* Configuration-form windows *)

\* C29: at any time at most one RoomConfig window exists per room.
C29_OneConfigWindowPerRoom ==
    \A r \in Rooms : Cardinality(WinsOf(windows, "muc_config", r)) <= 1

----------------------------------------------------------------------------
(* Inbound encrypted payloads *)

PgpKinds == {"pgp", "pgp_undecryptable"}

\* the message of the step is shown in the chat window of c
ShownInChat(o, c) ==
    \E i \in 1..Len(o) : o[i] = <<"print", "incoming_message", "chat", c>>

\* C30: every inbound chat message that carries a PGP payload is displayed in
\* the counterpart's chat window, decrypted or as its plain body, whatever the
\* window's encryption mode is, and is counted as unread when the window is
\* not the current one.
C30_PgpPayloadDisplayed ==
    [][\A c \in Contacts :
          (op'.name = "sv_ev_incoming_message" /\ op'.key = c
              /\ op'.flag \in PgpKinds /\ ~crashed')
             => /\ ShownInChat(out', c)
                /\ ~IsCurrentWin(windows, current, "chat", c)
                      => UnreadOf(windows', "chat", c) = UnreadOf(windows, "chat", c) + 1]_vars

----------------------------------------------------------------------------
(* Chat-state preferences *)

NextStates ==
    \/ Login \/ Disconnect
    \/ CmdStates \/ CmdOuttype \/ CmdGone
    \/ CmdChlog \/ CmdHistory

SpecStates == Init /\ [][NextStates]_vars

\* C31: after any sequence of /states, /outtype and /gone from the defaults,
\* sending of chat states is enabled whenever outgoing typing notifications
\* are enabled or the gone period is greater than zero.
C31_StatesCoverOuttypeAndGone ==
    ("outtype" \in prefs \/ gone > 0) => "states" \in prefs

\* /gone with a positive period has switched the states on
C31_Witness ==
    /\ op.name = "cmd_gone" /\ op.flag = "2"
    /\ gone = 2
    /\ "states" \in prefs
    /\ "outtype" \notin prefs

----------------------------------------------------------------------------
(* Join completion happens once *)

NextOnce ==
    \/ Login \/ Disconnect
    \/ CmdJoin
    \/ SvEvRoomBroadcast
    \/ SvEvMucSelfPresence(BOOLEAN, {"participant", "moderator"}, {"member"}, BOOLEAN)
    \/ PresenceSelfNickChange
    \/ SvEvRoomExit
    \/ CmdWin
    \/ CmdLeave

SpecOnce == Init /\ [][NextOnce]_vars

\* the handlers that call muc_leave
LeaveOps ==
    {"sv_ev_leave_room", "sv_ev_room_destroy", "sv_ev_room_destroyed", "sv_ev_room_kicked",
     "sv_ev_room_banned", "cmd_leave", "cmd_close", "cmd_wins"}

\* the lines a self-presence shows in a room whose join has completed
SelfChangeLines ==
    {"You are now known as"}
    \cup {"Your role has been changed to: " \o x : x \in {"participant", "moderator"}}

\* how many times message b stands in the queue q
TimesQueued(q, b) == Cardinality({i \in 1..Len(q) : q[i] = b})

\* the step runs one of the join-completion steps for room r
RunsCompletion(r) ==
    \/ CountOut(out', <<"print", "You have joined the room", "muc", r>>) > 0
    \/ CountOut(out', <<"send", "iq_room_info_request", "", r>>) > 0
    \/ CountOut(out', <<"print", LockedLine, "muc", r>>) > 0
    \/ \E b \in Broadcasts :
          /\ op'.name = "sv_ev_muc_self_online"
          /\ CountOut(out', <<"print", "Room message: " \o b, "muc", r>>) > 0

\* C32: between the join of a room and its next leave the join-completion
\* steps run at most once: they run only in a self-presence step that finds the
\* roster incomplete, each once, and that step marks the roster complete, which
\* only a leave undoes; the completing step shows every broadcast queued before
\* it as many times as it was received; a self-presence after completion shows
\* only the nick-change or role/affiliation-change line.
C32_JoinCompletesOnce ==
    [][\A r \in Rooms :
          /\ RunsCompletion(r) => JoinCompletes(r)
          /\ JoinCompletes(r)
                => /\ muc_roster_complete([muc |-> muc'], r)
                   /\ CountOut(out', <<"print", "You have joined the room", "muc", r>>) = 1
                   /\ CountOut(out', <<"send", "iq_room_info_request", "", r>>) = 1
                   /\ \A b \in Broadcasts :
                         CountOut(out', <<"print", "Room message: " \o b, "muc", r>>) =
                            TimesQueued(muc[r].pending_broadcasts, b)
          /\ (muc_roster_complete(St, r) /\ ~muc_roster_complete([muc |-> muc'], r))
                => op'.name \in LeaveOps
          /\ (op'.name = "sv_ev_muc_self_online" /\ op'.key = r /\ muc_roster_complete(St, r))
                => /\ muc_roster_complete([muc |-> muc'], r)
                   /\ \A i \in 1..Len(out') :
                         /\ out'[i][1] = "print" /\ out'[i][3] = "muc" /\ out'[i][4] = r
                         /\ out'[i][2] \in SelfChangeLines]_vars

\* a self-presence after completion, with two broadcasts queued before it, ran
\* the role-change branch
C32_Witness ==
    /\ op.name = "sv_ev_muc_self_online" /\ op.key = "r@conf"
    /\ muc_roster_complete(St, "r@conf")
    /\ Len(muc["r@conf"].pending_broadcasts) = 2
    /\ out = <<<<"print", "Your role has been changed to: moderator", "muc", "r@conf">>>>

----------------------------------------------------------------------------
(* Pending invites *)

NextInv ==
    \/ Login \/ Disconnect
    \/ SvEvRoomInvite
    \/ CmdDecline
    \/ CmdJoin
    \/ SvEvMucSelfOnline({FALSE})
    \/ SvEvRoomExit
    \/ CmdWin
    \/ CmdLeave

SpecInv == Init /\ [][NextInv]_vars

\* C33: in every reachable state there is at most one pending invite per room
\* and none for a room whose join has completed; /decline removes the named
\* invite and no other, or reports that none exists and leaves the invites as
\* they are.
C33_Invites ==
    /\ [](\A r \in InviteRooms :
             /\ invites[r] <= 1
             /\ muc_roster_complete(St, r) => invites[r] = 0)
    /\ [][\A r \in InviteRooms :
             (op'.name = "cmd_decline" /\ op'.key = r)
                => /\ invites' = [invites EXCEPT ![r] = 0]
                   /\ out' = IF invites[r] > 0
                             THEN <<<<"print", "Declined invite to " \o r, "console", "">>>>
                             ELSE <<<<"print", "No such invite exists.", "console", "">>>>]_vars

\* one of two pending invites was declined
C33_Witness ==
    /\ op.name = "cmd_decline" /\ op.key = "q@conf"
    /\ Printed(out, "Declined invite to q@conf")
    /\ invites["q@conf"] = 0
    /\ invites["r@conf"] = 1

----------------------------------------------------------------------------
(* Automatic tidying *)

\* the auto-tidy preference is on throughout
NextAuto ==
    \/ Login
    \/ CmdMsg(One)
    \/ CmdJoin \/ SvEvMucSelfOnline({FALSE}) \/ SvEvRoomExit
    \/ CmdRoom \/ RoomConfiguration \/ CmdForm \/ RoomConfigSubmitResult
    \/ CmdWin
    \/ CmdCloseWith({"", "num", "all", "read"}, {TRUE})
    \/ CmdLeave

SpecAuto == Init /\ [][NextAuto]_vars

Contiguous(W) == wins_get_nums(W) = 1..Cardinality(W)

\* C34: while the auto-tidy preference is on, after every operation that
\* closes a window the open windows occupy the slots 1..k.
C34_AutoTidyContiguous ==
    [][Cardinality(windows') < Cardinality(windows) => Contiguous(windows')]_vars

----------------------------------------------------------------------------
(* Disconnecting *)

NextDisc ==
    \/ Login \/ Disconnect \/ CmdDisconnectOffline
    \/ SvEvRoomInvite
    \/ SvEvIncomingMessage(One, {"plain"}, MaxUnreadLow)
    \/ SvEvActivity(One)
    \/ CmdJoin \/ SvEvMucSelfOnline({FALSE})
    \/ CmdWin

SpecDisc == Init /\ [][NextDisc]_vars

\* the state a handler leaves, its own console line aside
Core(S) == [S EXCEPT !.out = Tail(@)]

\* C35: /disconnect while connected and a lost connection leave the same
\* state: the connection is down, the roster, the pending invites and the chat
\* sessions are cleared and the UI is told, while the open windows, their slots
\* and the current window are as before; /disconnect without a connection
\* changes nothing.
C35_DisconnectEquivalence ==
    LET A == cmd_disconnect(St)
        B == sv_ev_lost_connection(LostConnection)
    IN  IF Connected
        THEN /\ Core(A) = Core(B)
             /\ A.conn_status = "disconnected"
             /\ \A r \in InviteRooms : A.invites[r] = 0
             /\ \A c \in Contacts : A.chat_sessions[c] = ""
             /\ CountOut(A.out, <<"call", "roster_clear", "", "">>) = 1
             /\ CountOut(A.out, <<"call", "wins_lost_connection", "", "">>) = 1
             /\ A.windows = windows /\ A.current = current
        ELSE [A EXCEPT !.out = <<>>] = St

\* a disconnect with a chat window open and focused
C35_Witness ==
    /\ op.name = "cmd_disconnect" /\ op.flag = ""
    /\ conn_status = "disconnected"
    /\ IsCurrentWin(windows, current, "chat", "a@x")
    /\ CountOut(out, <<"call", "roster_clear", "", "">>) = 1
    /\ \A c \in Contacts : chat_sessions[c] = ""

====
